---- MODULE Spec2Model ----
(***************************************************************************)
(* Model of DatabaseManager.update_parcel_data                             *)
(* (tile_processing/geojson_to_database_cycle/database_manager.py): the    *)
(* batched upsert of parcel records into the PostGIS table, its            *)
(* transaction handling and its reconciliation report.                     *)
(*                                                                         *)
(* The table is a set of rows; `committed` is the durable table and        *)
(* `table` is what the statements of the connection's open transaction     *)
(* see (autocommit is off, line 519).  One action models one whole         *)
(* iteration of the per-row try/except block, one the batch commit, one    *)
(* the report printed after the loops.                                     *)
(***************************************************************************)
EXTENDS Integers, Sequences, FiniteSets, TLC

(* ---- bounds of the model ---- *)
MaxRecords == 3

(* batch_size of update_parcel_data (1000 in the source), scaled down so   *)
(* that an input of MaxRecords rows spans more than one batch.             *)
batch_size == 2

(* SQL NULL / Python None *)
NULL == "NULL"

(* the global_parcel_uid values an input row may carry *)
Uids == {"a", "b"}

(* What matters of row.geometry to update_parcel_data:                     *)
(*  "none"          row.geometry is None or empty, or safe_geometry_to_wkb *)
(*                  returns None for it: has_valid_geometry is False       *)
(*  "valid"         encoded, and the spatial statement succeeds            *)
(*  "server_error"  encoded, and the server rejects the spatial statement  *)
(*                  (e.g. ST_GeomFromWKB fails): the transaction is        *)
(*                  aborted until the next rollback                        *)
(*  "driver_error"  encoded, and cursor.execute of the spatial statement   *)
(*                  raises before the statement reaches the server: the    *)
(*                  transaction stays usable                               *)
(* The counters geometry_conversion_failures, null_geometries and          *)
(* empty_geometries only feed the printed summary and are left out.        *)
GeometryKinds == {"none", "valid", "server_error", "driver_error"}

(* One input row of the GeoDataFrame.  owner_name stands for the sixteen   *)
(* columns that the INSERT and the UPDATE statements both set from the     *)
(* same row values (owner_name .. state); each row carries its own         *)
(* payload, named by its position in the input.                            *)
Feature(i, uid, g) ==
  [global_parcel_uid |-> uid, county_parcel_id_num |-> i, owner_name |-> i,
   geometry |-> g]

(* Identifiers are interchangeable: the first identifier of an input is    *)
(* named "a".                                                              *)
FirstIsA(u, n) ==
  \A i \in 1..n : u[i] = "b" => \E j \in 1..(i - 1) : u[j] = "a"

Inputs ==
  UNION { { [i \in 1..n |-> Feature(i, u[i], g[i])] :
              u \in { f \in [1..n -> Uids \cup {NULL}] : FirstIsA(f, n) },
              g \in [1..n -> GeometryKinds] } :
          n \in 0..MaxRecords }

VARIABLES
  gdf,                     \* the input rows (gpd.read_file), same for each run
  run,                     \* 1: first call of update_parcel_data, 2: second call on the same input
  pc,                      \* "row" | "commit" | "report" | "done"
  idx,                     \* position of the next row to process (1-based)
  batch_start,             \* 0-based start of the current batch
  committed,               \* the durable table
  table,                   \* the table as seen inside the open transaction
  next_id,                 \* the SERIAL sequence of column id (never rolled back)
  successful_inserts, skipped_rows, spatial_count, non_spatial_count,
  processed_parcel_ids, successful_parcel_ids, failed_parcel_ids,
  duplicate_parcel_ids, parcel_id_count,
  commit_log,              \* this run's conn.commit() calls in order: "ok" or "error"
  report,                  \* what the reconciliation printed: <<>> before, then one record
  first_run                \* the durable table and the commit log when the first run finished

(* migrate_to_postgis (migrate_to_postgis.py) and                          *)
(* PostGISPipeline.import_all_counties (postgis_pipeline.py)               *)
VARIABLES
  all_requested,           \* counties_to_migrate is None: migrate all counties
  counties_to_migrate,     \* the county keys asked for, in order (unused when all_requested)
  force_recreate,          \* the force_recreate argument
  files,                   \* the county keys whose geojson_path exists on disk now
  mig_pc,                  \* position in migrate_to_postgis
  counties_data,           \* the list handed to verify_data_files and import_all_counties
  county_idx,              \* position of the next county of import_all_counties (1-based)
  imported,                \* the counties whose import_county_data returned True, in order
  import_failed,           \* the counties whose import_county_data returned False, in order
  import_raised,           \* the counties whose update_parcel_data call raised
  db_log,                  \* the database operations of the migration, in order
  parcels_schema           \* the parcels table: "absent" | "legacy" (it has no column
                           \* global_parcel_uid) | "constrained" (the column of CREATE
                           \* TABLE: UNIQUE NOT NULL) | "unconstrained" (the column
                           \* added by ALTER TABLE)

(* the geometry functions of DatabaseManager, called on their own *)
VARIABLES
  geom_input,              \* the geometry argument of the call
  geom_pc,                 \* position in safe_geometry_to_wkb: "entry" | "validity" |
                           \* "clean" | "convert" | "validity_2d" | "encode" | "done"
  geom_parcel_id,          \* the parcel_id argument of safe_geometry_to_wkb
  geom_local,              \* the local variable geometry, then geom_2d
  geom_steps,              \* the steps safe_geometry_to_wkb went through so far
  geom_result              \* <<>> before the call, then one record: function, value, raised

(* the attribute functions of DatabaseManager and the attribute part of    *)
(* update_parcel_data's loop body                                          *)
VARIABLES
  attr_input,              \* the value, or the row, the call is made on
  attr_result              \* <<>> before the call, then one record: function and outcome

(* community_view_manager.py: one run of main()                            *)
VARIABLES
  mgr_command,             \* args.command
  mgr_config,              \* what main reads of config.json
  mgr_world,               \* which services answer their health request
  mgr_pc,                  \* "idle" | "main" | "daemon" | "exited"
  mgr_ticks,               \* the scheduled jobs the daemon has run
  mgr_log,                 \* what the run did, in order: statuses, cycles, emails, errors
  mgr_exit                 \* the exit code of the process, -1 while it runs

counters == <<successful_inserts, skipped_rows, spatial_count, non_spatial_count>>
idsets == <<processed_parcel_ids, successful_parcel_ids, failed_parcel_ids,
            duplicate_parcel_ids, parcel_id_count>>
upsert_vars == <<gdf, run, pc, idx, batch_start, committed, table, next_id, counters,
                 idsets, commit_log, report, first_run>>
migrate_vars == <<all_requested, counties_to_migrate, force_recreate, files, mig_pc,
                  counties_data, county_idx, imported, import_failed, import_raised,
                  db_log, parcels_schema>>

geom_vars == <<geom_input, geom_pc, geom_parcel_id, geom_local, geom_steps, geom_result>>

attr_vars == <<attr_input, attr_result>>

mgr_vars == <<mgr_command, mgr_config, mgr_world, mgr_pc, mgr_ticks, mgr_log, mgr_exit>>

(* what a step of update_parcel_data leaves alone *)
outside_upsert == <<migrate_vars, geom_vars, attr_vars, mgr_vars>>
(* what a step of migrate_to_postgis leaves alone *)
outside_migrate == <<upsert_vars, geom_vars, attr_vars, mgr_vars>>
(* what a call of a geometry function leaves alone *)
outside_geom == <<upsert_vars, migrate_vars, attr_vars, mgr_vars>>
(* what a call of an attribute function leaves alone *)
outside_attr == <<upsert_vars, migrate_vars, geom_vars, mgr_vars>>
(* what a step of community_view_manager leaves alone *)
outside_mgr == <<upsert_vars, migrate_vars, geom_vars, attr_vars>>

vars == <<upsert_vars, migrate_vars, geom_vars, attr_vars, mgr_vars>>

(* community_view_manager is not running *)
NoManager ==
  /\ mgr_command = "NULL" /\ mgr_config = <<>> /\ mgr_world = <<>> /\ mgr_pc = "idle"
  /\ mgr_ticks = 0 /\ mgr_log = <<>> /\ mgr_exit = -1

(* no geometry function is being called on its own *)
NoGeomCall ==
  /\ geom_input = <<>> /\ geom_pc = "idle" /\ geom_parcel_id = "NULL"
  /\ geom_local = <<>> /\ geom_steps = <<>> /\ geom_result = <<>>

(* no attribute function is being called on its own *)
NoAttrCall == attr_input = <<>> /\ attr_result = <<>>

(* no migration is under way, and the parcels table is the one of CREATE   *)
(* TABLE                                                                   *)
NoMigration ==
  /\ all_requested = FALSE /\ counties_to_migrate = <<>> /\ force_recreate = FALSE
  /\ files = {} /\ mig_pc = "idle" /\ counties_data = <<>> /\ county_idx = 1
  /\ imported = <<>> /\ import_failed = <<>> /\ import_raised = {} /\ db_log = <<>>
  /\ parcels_schema = "constrained"

(* the number of "Error committing batch" reports of this run *)
commit_errors == Cardinality({ k \in DOMAIN commit_log : commit_log[k] = "error" })

total_rows == Len(gdf)

Min(a, b) == IF a < b THEN a ELSE b

(* batch_end = min(batch_start + batch_size, total_rows) *)
batch_end == Min(batch_start + batch_size, total_rows)


(* ---------------------------------------------------------------------- *)
(* The table and the SQL statements                                        *)
(* ---------------------------------------------------------------------- *)

(* `global_parcel_uid = %s` of the WHERE clauses and of the UNIQUE index:  *)
(* SQL equality, which a NULL on either side never satisfies.              *)
MatchUid_NeverMatches(col, uid) == FALSE

MatchUid(col, uid) == col # NULL /\ uid # NULL /\ col = uid

(* SELECT id FROM table WHERE global_parcel_uid = %s *)
SelectId(tbl, uid) == { r.id : r \in { x \in tbl : MatchUid(x.global_parcel_uid, uid) } }

(* ST_GeomFromWKB(wkb, 4326) of an encoded geometry *)
ST_GeomFromWKB(wkb) == wkb

(* Lines 603-605: wkb_geometry, by the kind of the row's geometry: the     *)
(* bytes safe_geometry_to_wkb returns, or None.                            *)
wkb_geometry_of(g) ==
  IF g \in {"valid", "server_error", "driver_error"} THEN "wkb" ELSE NULL

(* a spatial UPDATE with the flag of the non-spatial one *)
UpdateSpatial_FlagFalse(tbl, rec, wkb) ==
  { IF MatchUid(r.global_parcel_uid, rec.global_parcel_uid)
      THEN [r EXCEPT !.owner_name = rec.owner_name,
                     !.geometry = ST_GeomFromWKB(wkb),
                     !.has_spatial_data = FALSE]
      ELSE r : r \in tbl }

(* UPDATE ... SET <sixteen columns>, geometry = ST_GeomFromWKB(%s, 4326),   *)
(* has_spatial_data = TRUE WHERE global_parcel_uid = %s.                   *)
(* county_parcel_id_num is not in the SET list.                            *)
UpdateSpatial(tbl, rec, wkb) ==
  { IF MatchUid(r.global_parcel_uid, rec.global_parcel_uid)
      THEN [r EXCEPT !.owner_name = rec.owner_name,
                     !.geometry = ST_GeomFromWKB(wkb),
                     !.has_spatial_data = TRUE]
      ELSE r : r \in tbl }

(* a non-spatial UPDATE that does not clear the geometry column *)
UpdateNonSpatial_KeepsGeometry(tbl, rec) ==
  { IF MatchUid(r.global_parcel_uid, rec.global_parcel_uid)
      THEN [r EXCEPT !.owner_name = rec.owner_name,
                     !.has_spatial_data = FALSE]
      ELSE r : r \in tbl }

(* UPDATE ... SET <sixteen columns>, geometry = NULL,                      *)
(* has_spatial_data = FALSE WHERE global_parcel_uid = %s                   *)
UpdateNonSpatial(tbl, rec) ==
  { IF MatchUid(r.global_parcel_uid, rec.global_parcel_uid)
      THEN [r EXCEPT !.owner_name = rec.owner_name,
                     !.geometry = NULL,
                     !.has_spatial_data = FALSE]
      ELSE r : r \in tbl }

(* the row an INSERT adds: id from the SERIAL sequence *)
NewRow(id, rec, geom, flag) ==
  [id |-> id,
   global_parcel_uid |-> rec.global_parcel_uid,
   county_parcel_id_num |-> rec.county_parcel_id_num,
   owner_name |-> rec.owner_name,
   geometry |-> geom,
   has_spatial_data |-> flag]

(* INSERT ... VALUES (..., ST_GeomFromWKB(%s, 4326), TRUE) *)
InsertSpatial(tbl, rec, wkb, id) == tbl \cup { NewRow(id, rec, ST_GeomFromWKB(wkb), TRUE) }

(* INSERT ... VALUES (..., NULL, FALSE) *)
InsertNonSpatial(tbl, rec, id) == tbl \cup { NewRow(id, rec, NULL, FALSE) }

(* The constraints of CREATE TABLE on global_parcel_uid: UNIQUE NOT NULL   *)
(* (line 356).  The column that ALTER TABLE adds to a table that lacked it *)
(* (line 393) has neither.                                                 *)
ViolatesConstraint(tbl, uid) ==
  /\ parcels_schema = "constrained"
  /\ (uid = NULL \/ \E r \in tbl : MatchUid(r.global_parcel_uid, uid))

(* conn.rollback() that would undo nothing *)
Rollback_KeepsUncommitted(durable, working) == working

(* a rollback that would leave the connection with an empty table *)
Rollback_DropsRows(durable, working) == {}

(* a rollback that would keep the rows written since the last commit next  *)
(* to the durable ones                                                     *)
Rollback_Merges(durable, working) == durable \cup working

(* conn.rollback(): the open transaction is discarded as a whole, the      *)
(* connection sees the durable table again.                                *)
Rollback(durable, working) == durable

(* cursor.execute(stmt, params) inside the open transaction.               *)
(* tx = [tbl, aborted, nextval]; the result adds `raised`.                 *)
(* A statement sent while the transaction is aborted raises                *)
(* (InFailedSqlTransaction) and changes nothing.                           *)
Raise(tx, abort) == [tbl |-> tx.tbl, aborted |-> abort, nextval |-> tx.nextval, raised |-> TRUE]
Done(tx, tbl, used) == [tbl |-> tbl, aborted |-> FALSE, nextval |-> tx.nextval + used, raised |-> FALSE]

ExecUpdateSpatial(tx, rec, wkb) ==
  IF tx.aborted THEN Raise(tx, TRUE)
  ELSE IF rec.geometry = "driver_error" THEN Raise(tx, FALSE)
  ELSE IF rec.geometry = "server_error" THEN Raise(tx, TRUE)
  ELSE Done(tx, UpdateSpatial(tx.tbl, rec, wkb), 0)

ExecUpdateNonSpatial(tx, rec) ==
  IF tx.aborted THEN Raise(tx, TRUE)
  ELSE Done(tx, UpdateNonSpatial(tx.tbl, rec), 0)

(* A failed INSERT has still drawn its id from the sequence. *)
ExecInsertSpatial(tx, rec, wkb) ==
  IF tx.aborted THEN Raise(tx, TRUE)
  ELSE IF rec.geometry = "driver_error" THEN Raise(tx, FALSE)
  ELSE IF rec.geometry = "server_error"
            \/ ViolatesConstraint(tx.tbl, rec.global_parcel_uid)
    THEN Raise([tx EXCEPT !.nextval = @ + 1], TRUE)
  ELSE Done(tx, InsertSpatial(tx.tbl, rec, wkb, tx.nextval), 1)

ExecInsertNonSpatial(tx, rec) ==
  IF tx.aborted THEN Raise(tx, TRUE)
  ELSE IF ViolatesConstraint(tx.tbl, rec.global_parcel_uid)
    THEN Raise([tx EXCEPT !.nextval = @ + 1], TRUE)
  ELSE Done(tx, InsertNonSpatial(tx.tbl, rec, tx.nextval), 1)


(* ---------------------------------------------------------------------- *)
(* One iteration of `for idx, row in batch_df.iterrows()`: lines 545-758   *)
(* ---------------------------------------------------------------------- *)

(* The body of the try block from the existence check on (lines 594-751),  *)
(* for row `rec`, in the transaction tx.  Result: the transaction after    *)
(* the last statement, whether an exception left the try block (`raised`), *)
(* and what the block did to the counters and the sets before it ended.    *)
TryRow(tx, rec) ==
  LET uid == rec.global_parcel_uid
      found == SelectId(tx.tbl, uid) # {}
      \* lines 600-612
      wkb_geometry == wkb_geometry_of(rec.geometry)
      has_valid_geometry == wkb_geometry # NULL
      out(t, sp, nsp, inner_failed) ==
        [tx |-> t, raised |-> t.raised, spatial |-> sp, non_spatial |-> nsp,
         inner_failed |-> inner_failed,
         succeeded |-> ~t.raised]
  IN
  IF found THEN
    IF has_valid_geometry THEN
      LET s1 == ExecUpdateSpatial(tx, rec, wkb_geometry) IN
      IF ~s1.raised THEN out(s1, 1, 0, FALSE)
      ELSE \* except Exception as geom_error: fall back to non-spatial update
        LET s2 == ExecUpdateNonSpatial(s1, rec) IN
        IF ~s2.raised THEN out(s2, 0, 1, FALSE) ELSE out(s2, 0, 0, FALSE)
    ELSE
      LET s1 == ExecUpdateNonSpatial(tx, rec) IN
      IF ~s1.raised THEN out(s1, 0, 1, FALSE) ELSE out(s1, 0, 0, FALSE)
  ELSE
    IF has_valid_geometry THEN
      LET s1 == ExecInsertSpatial(tx, rec, wkb_geometry) IN
      IF ~s1.raised THEN out(s1, 1, 0, FALSE)
      ELSE \* except Exception as geom_error: failed_parcel_ids.add, fall back
        LET s2 == ExecInsertNonSpatial(s1, rec) IN
        IF ~s2.raised THEN out(s2, 0, 1, TRUE) ELSE out(s2, 0, 0, TRUE)
    ELSE
      LET s1 == ExecInsertNonSpatial(tx, rec) IN
      IF ~s1.raised THEN out(s1, 0, 1, FALSE) ELSE out(s1, 0, 0, FALSE)

(* a row loop that commits after every row *)
AfterRow_CommitsEveryRow(i) == "commit"

(* the position after row i: the next row of the batch, or the commit *)
AfterRow(i) == IF i >= batch_end THEN "commit" ELSE "row"

(* an except clause that lets the error leave update_parcel_data *)
OnRowError_Propagates(i) == "aborted"

(* line 758, `continue`: after the except clause the loop goes on *)
OnRowError(i) == AfterRow(i)

(* an except clause that does not count the row *)
CountSkipped_NotCounted(skipped) == skipped

(* line 756: skipped_rows += 1 *)
CountSkipped(skipped) == skipped + 1

(* an except clause that does not record the identifier *)
MarkFailed_Forgets(failed, uid) == failed

(* an except clause that starts the failed set anew *)
MarkFailed_Replaces(failed, uid) == {uid}

(* line 755: failed_parcel_ids.add(global_parcel_uid) *)
MarkFailed(failed, uid) == failed \cup {uid}

ProcessRow ==
  /\ pc = "row"
  /\ LET rec == gdf[idx]
         uid == rec.global_parcel_uid
         r == TryRow([tbl |-> table, aborted |-> FALSE, nextval |-> next_id], rec)
     IN
     \* lines 562-569: track processed parcel ids
     /\ IF uid # NULL
          THEN /\ processed_parcel_ids' = processed_parcel_ids \cup {uid}
               /\ IF uid \in DOMAIN parcel_id_count
                    THEN /\ parcel_id_count' = [parcel_id_count EXCEPT ![uid] = @ + 1]
                         /\ duplicate_parcel_ids' = duplicate_parcel_ids \cup {uid}
                    ELSE /\ parcel_id_count' = parcel_id_count @@ (uid :> 1)
                         /\ UNCHANGED duplicate_parcel_ids
          ELSE UNCHANGED <<processed_parcel_ids, parcel_id_count, duplicate_parcel_ids>>
     /\ spatial_count' = spatial_count + r.spatial
     /\ non_spatial_count' = non_spatial_count + r.non_spatial
     /\ successful_parcel_ids' =
          IF r.succeeded THEN successful_parcel_ids \cup {uid} ELSE successful_parcel_ids
     /\ next_id' = r.tx.nextval
     /\ IF ~r.raised
          THEN \* line 751
               /\ successful_inserts' = successful_inserts + 1
               /\ failed_parcel_ids' =
                    IF r.inner_failed THEN failed_parcel_ids \cup {uid} ELSE failed_parcel_ids
               /\ table' = r.tx.tbl
               /\ UNCHANGED skipped_rows
          ELSE \* lines 753-758: except Exception
               /\ failed_parcel_ids' = MarkFailed(failed_parcel_ids, uid)
               /\ skipped_rows' = CountSkipped(skipped_rows)
               /\ table' = Rollback(committed, r.tx.tbl)
               /\ UNCHANGED successful_inserts
     /\ idx' = idx + 1
     /\ pc' = IF r.raised THEN OnRowError(idx) ELSE AfterRow(idx)
  /\ UNCHANGED <<gdf, run, batch_start, committed, commit_log, report, first_run>>
  /\ UNCHANGED outside_upsert


(* ---------------------------------------------------------------------- *)
(* The batch commit (lines 760-765) and the loop over the batches (539)    *)
(* ---------------------------------------------------------------------- *)

(* the position after the batch: the first row of the next batch of        *)
(* range(0, total_rows, batch_size), or the report after the loop          *)
AfterBatch == IF batch_start + batch_size < total_rows THEN "row" ELSE "report"

(* conn.commit() succeeds: the open transaction becomes durable *)
CommitBatch ==
  /\ pc = "commit"
  /\ committed' = table
  /\ batch_start' = batch_start + batch_size
  /\ pc' = AfterBatch
  /\ commit_log' = Append(commit_log, "ok")
  /\ UNCHANGED <<gdf, run, idx, table, next_id, counters, idsets, report, first_run>>
  /\ UNCHANGED outside_upsert

(* conn.commit() raises: "Error committing batch", conn.rollback() *)
CommitFails ==
  /\ pc = "commit"
  /\ commit_log' = Append(commit_log, "error")
  /\ table' = Rollback(committed, table)
  /\ batch_start' = batch_start + batch_size
  /\ pc' = AfterBatch
  /\ UNCHANGED <<gdf, run, idx, committed, next_id, counters, idsets, report,
                 first_run>>
  /\ UNCHANGED outside_upsert

(* ---------------------------------------------------------------------- *)
(* conn.close() and the report (lines 767-814)                             *)
(* ---------------------------------------------------------------------- *)
Report ==
  /\ pc = "report"
  /\ report' = <<
       [successful_inserts |-> successful_inserts,
        skipped_rows |-> skipped_rows,
        duplicates |-> duplicate_parcel_ids,
        duplicate_counts |-> [u \in duplicate_parcel_ids |-> parcel_id_count[u]],
        discrepancy |-> successful_inserts # Cardinality(processed_parcel_ids),
        processed_not_successful |-> processed_parcel_ids \ successful_parcel_ids,
        successful_not_processed |-> successful_parcel_ids \ processed_parcel_ids] >>
  /\ table' = committed
  /\ first_run' = IF run = 1 THEN [table |-> committed, commit_log |-> commit_log]
                             ELSE first_run
  /\ pc' = "done"
  /\ UNCHANGED <<gdf, run, idx, batch_start, committed, next_id, counters, idsets,
                 commit_log>>
  /\ UNCHANGED outside_upsert

(* the locals of update_parcel_data at line 533, before the batch loop *)
LocalsInit ==
  /\ successful_inserts = 0 /\ skipped_rows = 0
  /\ spatial_count = 0 /\ non_spatial_count = 0
  /\ processed_parcel_ids = {} /\ successful_parcel_ids = {}
  /\ failed_parcel_ids = {} /\ duplicate_parcel_ids = {}
  /\ parcel_id_count = <<>>
  /\ commit_log = <<>>
  /\ report = <<>>
  /\ idx = 1 /\ batch_start = 0

Init ==
  /\ gdf \in Inputs
  /\ run = 1
  /\ committed = {} /\ table = {}
  /\ next_id = 1
  /\ first_run = [table |-> {}, commit_log |-> <<>>]
  /\ LocalsInit
  /\ pc = IF Len(gdf) = 0 THEN "report" ELSE "row"
  /\ NoMigration
  /\ NoGeomCall
  /\ NoAttrCall
  /\ NoManager

(* update_parcel_data is called again on the same file and table *)
SecondRun ==
  /\ pc = "done" /\ run = 1
  /\ run' = 2
  /\ successful_inserts' = 0 /\ skipped_rows' = 0
  /\ spatial_count' = 0 /\ non_spatial_count' = 0
  /\ processed_parcel_ids' = {} /\ successful_parcel_ids' = {}
  /\ failed_parcel_ids' = {} /\ duplicate_parcel_ids' = {}
  /\ parcel_id_count' = <<>>
  /\ commit_log' = <<>>
  /\ report' = <<>>
  /\ idx' = 1 /\ batch_start' = 0
  /\ pc' = IF total_rows = 0 THEN "report" ELSE "row"
  /\ UNCHANGED <<gdf, committed, table, next_id, first_run>>
  /\ UNCHANGED outside_upsert

(* the steps of one call of update_parcel_data *)
RunStep == ProcessRow \/ CommitBatch \/ CommitFails \/ Report

Next == RunStep \/ SecondRun

Spec == Init /\ [][Next]_vars

(* update_parcel_data on a table that existed before the column            *)
(* global_parcel_uid was introduced: create_parcel_table has added the     *)
(* column with ALTER TABLE (lines 383-394)                                 *)
LegacyInit ==
  /\ gdf \in Inputs
  /\ run = 1
  /\ committed = {} /\ table = {}
  /\ next_id = 1
  /\ first_run = [table |-> {}, commit_log |-> <<>>]
  /\ LocalsInit
  /\ pc = IF Len(gdf) = 0 THEN "report" ELSE "row"
  /\ all_requested = FALSE /\ counties_to_migrate = <<>> /\ force_recreate = FALSE
  /\ files = {} /\ mig_pc = "idle" /\ counties_data = <<>> /\ county_idx = 1
  /\ imported = <<>> /\ import_failed = <<>> /\ import_raised = {} /\ db_log = <<>>
  /\ parcels_schema = "unconstrained"
  /\ NoGeomCall
  /\ NoAttrCall
  /\ NoManager

LegacySpec == LegacyInit /\ [][Next]_vars

(* One call of update_parcel_data.  Its loops have no blocking step: a     *)
(* step that is enabled is eventually taken.                               *)
FairSpec == Init /\ [][RunStep]_vars /\ WF_vars(RunStep)

(* ---------------------------------------------------------------------- *)
(* A run that is terminated, and the run started afterwards                *)
(* ---------------------------------------------------------------------- *)

(* a connection whose end would make the open transaction durable *)
CloseConnection_Commits(durable, working) == working

(* The connection of the run (lines 518-519, autocommit off) ends without  *)
(* a commit: the server discards the open transaction, the durable table   *)
(* is what the last successful conn.commit() left.                         *)
CloseConnection(durable, working) == durable

(* The process of the first run ends at any point between the start of the *)
(* batch loop and the end of the report (signal, crash, power loss).       *)
(* The SERIAL sequence keeps the values it has handed out.                 *)
Terminate ==
  /\ run = 1
  /\ pc \in {"row", "commit", "report"}
  /\ committed' = CloseConnection(committed, table)
  /\ table' = CloseConnection(committed, table)
  /\ pc' = "killed"
  /\ UNCHANGED <<gdf, run, idx, batch_start, next_id, counters, idsets, commit_log,
                 report, first_run>>
  /\ UNCHANGED outside_upsert

(* update_parcel_data is called again, on the complete same input, after   *)
(* the first run was terminated                                            *)
Rerun ==
  /\ pc = "killed"
  /\ run' = 2
  /\ successful_inserts' = 0 /\ skipped_rows' = 0
  /\ spatial_count' = 0 /\ non_spatial_count' = 0
  /\ processed_parcel_ids' = {} /\ successful_parcel_ids' = {}
  /\ failed_parcel_ids' = {} /\ duplicate_parcel_ids' = {}
  /\ parcel_id_count' = <<>>
  /\ commit_log' = <<>>
  /\ report' = <<>>
  /\ idx' = 1 /\ batch_start' = 0
  /\ pc' = IF total_rows = 0 THEN "report" ELSE "row"
  /\ first_run' = [table |-> committed, commit_log |-> commit_log]
  /\ UNCHANGED <<gdf, committed, table, next_id>>
  /\ UNCHANGED outside_upsert

(* the steps of a run in which every conn.commit() succeeds *)
CleanRunStep == ProcessRow \/ CommitBatch \/ Report

KillNext == CleanRunStep \/ Terminate \/ Rerun

(* A first run that may be terminated at any point and, if it was, a       *)
(* second run on the same input; no conn.commit() fails in either.         *)
KillSpec == Init /\ [][KillNext]_vars

(* ====================================================================== *)
(* migrate_to_postgis: the multi-county run                                *)
(* ====================================================================== *)

(* the longest list of county keys a caller passes *)
MaxRequested == 3

(* the keys of get_county_data_files() (three of its five counties) *)
AllCounties == <<"teton_county_wy", "sublette_county_wy", "teton_county_id">>

(* a key that get_county_data_files() does not have *)
UnknownCounty == "no_such_county"

KnownKeys == { AllCounties[i] : i \in DOMAIN AllCounties }

(* the values of the --counties argument *)
Requests ==
  UNION { [1..n -> KnownKeys \cup {UnknownCounty}] : n \in 0..MaxRequested }

(* no call of update_parcel_data is under way *)
NoUpsert ==
  /\ gdf = <<>> /\ run = 1 /\ pc = "idle"
  /\ committed = {} /\ table = {} /\ next_id = 1
  /\ first_run = [table |-> {}, commit_log |-> <<>>]
  /\ LocalsInit

MigrateInit ==
  /\ all_requested \in BOOLEAN
  /\ counties_to_migrate \in (IF all_requested THEN {<<>>} ELSE Requests)
  /\ force_recreate \in BOOLEAN
  /\ files \in SUBSET KnownKeys
  /\ mig_pc = "select"
  /\ counties_data = <<>> /\ county_idx = 1
  /\ imported = <<>> /\ import_failed = <<>> /\ import_raised = {} /\ db_log = <<>>
  /\ parcels_schema \in {"absent", "legacy", "constrained", "unconstrained"}
  /\ NoUpsert
  /\ NoGeomCall
  /\ NoAttrCall
  /\ NoManager

(* os.path.exists(geojson_path) *)
FileExists(county) == county \in files

(* lines 77-101: the counties to migrate; an unknown key or an empty list  *)
(* ends the migration                                                      *)
SelectCounties ==
  /\ mig_pc = "select"
  /\ IF all_requested
       THEN /\ counties_data' = AllCounties
            /\ mig_pc' = "verify"
       ELSE IF \E i \in DOMAIN counties_to_migrate : counties_to_migrate[i] \notin KnownKeys
              THEN /\ mig_pc' = "returned"
                   /\ counties_data' =
                        LET bad == CHOOSE i \in DOMAIN counties_to_migrate :
                                     /\ counties_to_migrate[i] \notin KnownKeys
                                     /\ \A j \in 1..(i - 1) : counties_to_migrate[j] \in KnownKeys
                        IN SubSeq(counties_to_migrate, 1, bad - 1)
              ELSE /\ counties_data' = counties_to_migrate
                   /\ mig_pc' = IF counties_to_migrate = <<>> THEN "returned" ELSE "verify"
  /\ UNCHANGED <<all_requested, counties_to_migrate, force_recreate, files, county_idx,
                 imported, import_failed, import_raised, db_log,
                 parcels_schema>>
  /\ UNCHANGED outside_migrate

(* verify_data_files (lines 42-58): False when the file of any county of   *)
(* the list is missing                                                     *)
verify_data_files(data) == \A i \in DOMAIN data : FileExists(data[i])

(* lines 104-107 *)
VerifyDataFiles ==
  /\ mig_pc = "verify"
  /\ mig_pc' = IF verify_data_files(counties_data) THEN "setup_database" ELSE "returned"
  /\ UNCHANGED <<all_requested, counties_to_migrate, force_recreate, files, counties_data,
                 county_idx, imported, import_failed, import_raised, db_log,
                 parcels_schema>>
  /\ UNCHANGED outside_migrate

(* a create_parcel_table that drops the table it finds, whatever           *)
(* force_recreate says                                                     *)
create_parcel_table_AlwaysDrops(schema, force) ==
  IF schema # "absent"
    THEN [statements |-> <<"DROP TABLE", "CREATE TABLE", "CREATE INDEX">>,
          schema |-> "constrained"]
    ELSE [statements |-> <<"CREATE TABLE", "CREATE INDEX">>, schema |-> "constrained"]

(* DatabaseManager.create_parcel_table, lines 333-431: the statements it   *)
(* executes that change the database, and the table it leaves.  An         *)
(* existing table is dropped only with force_recreate (lines 347-350); a   *)
(* table that is not there is created (lines 352-381); an existing table   *)
(* gets the column global_parcel_uid when it lacks it, as a plain          *)
(* VARCHAR(255) (lines 383-394); the indexes are created when missing      *)
(* (lines 410-429), none of them unique.                                   *)
create_parcel_table(schema, force) ==
  IF force /\ schema # "absent"
    THEN [statements |-> <<"DROP TABLE", "CREATE TABLE", "CREATE INDEX">>,
          schema |-> "constrained"]
  ELSE IF schema = "absent"
    THEN [statements |-> <<"CREATE TABLE", "CREATE INDEX">>, schema |-> "constrained"]
  ELSE IF schema = "legacy"
    THEN [statements |-> <<"ALTER TABLE ADD COLUMN", "CREATE INDEX">>,
          schema |-> "unconstrained"]
  ELSE [statements |-> <<"CREATE INDEX">>, schema |-> schema]

(* line 113, PostGISPipeline.setup_database: create_database_and_extensions *)
(* and create_parcel_table() without force_recreate                        *)
SetupDatabase ==
  /\ mig_pc = "setup_database"
  /\ \E made \in {create_parcel_table(parcels_schema, FALSE)} :
       /\ db_log' = db_log \o <<"create_database_and_extensions">> \o made.statements
       /\ parcels_schema' = made.schema
  /\ mig_pc' = "create_parcel_table"
  /\ UNCHANGED <<all_requested, counties_to_migrate, force_recreate, files, counties_data,
                 county_idx, imported, import_failed, import_raised>>
  /\ UNCHANGED outside_migrate

(* psycopg2.connect or a statement of the setup raises: nothing in         *)
(* migrate_to_postgis catches it                                           *)
SetupDatabaseRaises ==
  /\ mig_pc = "setup_database"
  /\ mig_pc' = "raised"
  /\ UNCHANGED <<all_requested, counties_to_migrate, force_recreate, files, counties_data,
                 county_idx, imported, import_failed, import_raised, db_log,
                 parcels_schema>>
  /\ UNCHANGED outside_migrate

(* line 118, create_parcel_table(force_recreate): the table exists after   *)
(* setup_database, so it is dropped and created again exactly when         *)
(* force_recreate is set (lines 347-352)                                   *)
CreateParcelTable ==
  /\ mig_pc = "create_parcel_table"
  /\ \E made \in {create_parcel_table(parcels_schema, force_recreate)} :
       /\ db_log' = db_log \o made.statements
       /\ parcels_schema' = made.schema
  /\ county_idx' = 1
  /\ mig_pc' = "import"
  /\ UNCHANGED <<all_requested, counties_to_migrate, force_recreate, files, counties_data,
                 imported, import_failed, import_raised>>
  /\ UNCHANGED outside_migrate

(* a loop over the counties that ends at the first county that fails *)
OnCountyFailed_Stops(i) == "stats"

(* import_all_counties, lines 78-86: a failed county is reported and the   *)
(* loop goes on with the next county                                       *)
OnCountyFailed(i) == IF i >= Len(counties_data) THEN "stats" ELSE "import"

(* the position after a county that was imported *)
AfterCounty(i) == IF i >= Len(counties_data) THEN "stats" ELSE "import"

(* One iteration of import_all_counties: import_county_data (lines 39-65)  *)
(* for the next county.  `outcome` is how update_parcel_data ends when the *)
(* file exists: it returns, or it raises (unreadable file, no connection). *)
ImportCounty ==
  /\ mig_pc = "import"
  /\ \E outcome \in {"returns", "raises"} :
       LET county == counties_data[county_idx]
           success == FileExists(county) /\ outcome = "returns"
       IN
       /\ imported' = IF success THEN Append(imported, county) ELSE imported
       /\ import_failed' = IF success THEN import_failed ELSE Append(import_failed, county)
       /\ import_raised' = IF FileExists(county) /\ outcome = "raises"
                             THEN import_raised \cup {county} ELSE import_raised
       /\ db_log' = IF FileExists(county) THEN Append(db_log, "update_parcel_data")
                                          ELSE db_log
       /\ mig_pc' = IF success THEN AfterCounty(county_idx) ELSE OnCountyFailed(county_idx)
  /\ county_idx' = county_idx + 1
  /\ UNCHANGED <<all_requested, counties_to_migrate, force_recreate, files, counties_data,
                 parcels_schema>>
  /\ UNCHANGED outside_migrate

(* line 129, print_database_stats, and the closing messages *)
PrintStats ==
  /\ mig_pc = "stats"
  /\ mig_pc' = "complete"
  /\ UNCHANGED <<all_requested, counties_to_migrate, force_recreate, files, counties_data,
                 county_idx, imported, import_failed, import_raised, db_log,
                 parcels_schema>>
  /\ UNCHANGED outside_migrate

(* the environment: a county's file disappears while the migration runs *)
FileRemoved ==
  /\ mig_pc \in {"select", "verify", "setup_database", "create_parcel_table", "import"}
  /\ \E county \in files : files' = files \ {county}
  /\ UNCHANGED <<all_requested, counties_to_migrate, force_recreate, mig_pc, counties_data,
                 county_idx, imported, import_failed, import_raised, db_log,
                 parcels_schema>>
  /\ UNCHANGED outside_migrate

MigrateNext ==
  \/ SelectCounties \/ VerifyDataFiles \/ SetupDatabase \/ SetupDatabaseRaises
  \/ CreateParcelTable \/ ImportCounty \/ PrintStats \/ FileRemoved

MigrateSpec == MigrateInit /\ [][MigrateNext]_vars

(* ====================================================================== *)
(* The geometry functions of DatabaseManager (lines 22-297)                *)
(* ====================================================================== *)

(* ---- ordinates: Python floats ---- *)
Num(v) == [kind |-> "num", v |-> v]
NaN == [kind |-> "nan", v |-> 0]
PosInf == [kind |-> "inf", v |-> 1]

(* math.isnan, math.isinf *)
isnan(x) == x.kind = "nan"
isinf(x) == x.kind = "inf"

(* a coordinate check that forgets the longitude/latitude range *)
is_valid_coord_NoRange(coord) ==
  /\ Len(coord) >= 2
  /\ ~(isnan(coord[1]) \/ isnan(coord[2]) \/ isinf(coord[1]) \/ isinf(coord[2]))

(* a coordinate check whose bounds are exclusive *)
is_valid_coord_OpenBounds(coord) ==
  /\ Len(coord) >= 2
  /\ ~(isnan(coord[1]) \/ isnan(coord[2]) \/ isinf(coord[1]) \/ isinf(coord[2]))
  /\ coord[1].v > -180 /\ coord[1].v < 180 /\ coord[2].v > -90 /\ coord[2].v < 90

(* is_valid_coord, lines 63-71; a coordinate is a tuple of ordinates *)
is_valid_coord(coord) ==
  IF Len(coord) < 2 THEN FALSE
  ELSE LET lon == coord[1]
           lat == coord[2]
       IN IF isnan(lon) \/ isnan(lat) \/ isinf(lon) \/ isinf(lat) THEN FALSE
          \* both are finite numbers here
          ELSE IF lon.v < -180 \/ lon.v > 180 \/ lat.v < -90 \/ lat.v > 90 THEN FALSE
          ELSE TRUE

(* a clean_coords that appends every valid coordinate as it is (line 79    *)
(* without its conditional expression)                                     *)
clean_coords_KeepsZ(coords) == SelectSeq(coords, is_valid_coord)

(* a clean_coords whose loop stops before the last coordinate *)
clean_coords_SkipsLast(coords) ==
  LET kept == SelectSeq(SubSeq(coords, 1, Len(coords) - 1), is_valid_coord)
  IN [i \in 1..Len(kept) |->
        IF Len(kept[i]) > 2 THEN <<kept[i][1], kept[i][2]>> ELSE kept[i]]

(* clean_coords, lines 73-84: the valid coordinates in order, each cut to  *)
(* its first two ordinates                                                 *)
clean_coords(coords) ==
  LET kept == SelectSeq(coords, is_valid_coord)
  IN [i \in 1..Len(kept) |->
        IF Len(kept[i]) > 2 THEN <<kept[i][1], kept[i][2]>> ELSE kept[i]]

(* the counter `dropped` of clean_coords, lines 76-81: one for every        *)
(* coordinate that is_valid_coord rejects                                  *)
dropped(coords) == Len(coords) - Len(SelectSeq(coords, is_valid_coord))

(* ---- geometries: shapely objects ---- *)

(* Python None where a geometry is expected *)
None == [geom_type |-> "None"]

(* the threshold 1e-10 of _repair_geometry; areas are counted in units of  *)
(* half of it                                                              *)
AreaEps == 2

(* A geometry: its type and coordinates, and what shapely computes from    *)
(* them that the coordinates of the model do not determine: is_valid,      *)
(* area, and (`shapely`) what make_valid, simplify().buffer(0) and the     *)
(* validity check of a polygon rebuilt from fewer coordinates answer.      *)
Geometry(type, exterior, interiors, geoms, coords, valid, area, answers) ==
  [geom_type |-> type, exterior |-> exterior, interiors |-> interiors,
   geoms |-> geoms, coords |-> coords, is_valid |-> valid, area |-> area,
   shapely |-> answers]

(* all coordinates of a geometry *)
RECURSIVE AllCoords(_)
AllCoords(g) ==
  IF g = None THEN {}
  ELSE { g.exterior[i] : i \in DOMAIN g.exterior }
       \cup UNION { { g.interiors[k][i] : i \in DOMAIN g.interiors[k] } : k \in DOMAIN g.interiors }
       \cup UNION { AllCoords(g.geoms[k]) : k \in DOMAIN g.geoms }
       \cup { g.coords[i] : i \in DOMAIN g.coords }

(* geometry.has_z *)
has_z(g) == \E c \in AllCoords(g) : Len(c) > 2

(* geometry.is_empty *)
is_empty(g) == AllCoords(g) = {}

(* shapely closes a ring whose last coordinate is not its first *)
CloseRing(ring) ==
  IF ring = <<>> \/ ring[1] = ring[Len(ring)] THEN ring ELSE Append(ring, ring[1])

(* Polygon(exterior, interiors) built from the rings of `source`; is_valid *)
(* is the source's when the rings are the source's own (with or without    *)
(* Z), may only improve when nothing but holes were removed, and is        *)
(* shapely's answer otherwise.                                             *)
Polygon(exterior, interiors, source, same_coords, same_holes) ==
  Geometry("Polygon", CloseRing(exterior),
           [k \in DOMAIN interiors |-> CloseRing(interiors[k])], <<>>, <<>>,
           IF same_coords
             THEN IF same_holes THEN source.is_valid
                  ELSE source.is_valid \/ source.shapely.rebuilt_valid
             ELSE source.shapely.rebuilt_valid,
           source.area, source.shapely)

(* MultiPolygon(parts) built from parts of `source` *)
MultiPolygon(parts, source, same_parts) ==
  Geometry("MultiPolygon", <<>>, <<>>, parts, <<>>,
           IF same_parts THEN source.is_valid ELSE source.shapely.rebuilt_valid,
           source.area, source.shapely)

(* whether shapely raises in the named call for this geometry *)
Raises(geometry, call) == call \in geometry.shapely.raises

(* a Polygon branch that returns None when an interior ring is left with   *)
(* fewer than 4 points                                                     *)
CleanPolygon_RejectsOnHole(geometry) ==
  LET exterior == clean_coords(geometry.exterior)
      interiors == [k \in DOMAIN geometry.interiors |-> clean_coords(geometry.interiors[k])]
      same_coords ==
        /\ Len(exterior) = Len(geometry.exterior)
        /\ \A k \in DOMAIN interiors : Len(interiors[k]) = Len(geometry.interiors[k])
  IN IF Len(exterior) < 4 \/ \E k \in DOMAIN interiors : Len(interiors[k]) < 4 THEN None
     ELSE IF Raises(geometry, "Polygon") THEN None
     ELSE LET poly == Polygon(exterior, interiors, geometry, same_coords, TRUE)
          IN IF ~poly.is_valid THEN None ELSE poly

(* the Polygon branch of _validate_and_clean_coordinates, lines 87-105 *)
CleanPolygon(geometry) ==
  LET HasFourPoints(ring) == Len(ring) >= 4
      exterior == clean_coords(geometry.exterior)
      cleaned == [k \in DOMAIN geometry.interiors |-> clean_coords(geometry.interiors[k])]
      \* lines 93-99: an interior ring with fewer than 4 points is dropped
      interiors == SelectSeq(cleaned, HasFourPoints)
      same_coords ==
        /\ Len(exterior) = Len(geometry.exterior)
        /\ \A k \in DOMAIN cleaned :
             HasFourPoints(cleaned[k]) => Len(cleaned[k]) = Len(geometry.interiors[k])
      same_holes == Len(interiors) = Len(cleaned)
  IN IF Len(exterior) < 4 THEN None
     ELSE IF Raises(geometry, "Polygon") THEN None      \* lines 125-127
     ELSE LET poly == Polygon(exterior, interiors, geometry, same_coords, same_holes)
          IN IF ~poly.is_valid THEN None ELSE poly

(* _validate_and_clean_coordinates, lines 58-127 *)
_validate_and_clean_coordinates(geometry) ==
  IF geometry.geom_type = "Polygon" THEN CleanPolygon(geometry)
  ELSE IF geometry.geom_type = "MultiPolygon" THEN
    \* lines 107-120: the parts are Polygons, cleaned by the same function
    LET cleaned == [k \in DOMAIN geometry.geoms |-> CleanPolygon(geometry.geoms[k])]
        KeptPart(part) == part # None /\ part.is_valid         \* line 111
        \* no coordinate and no ring of `before` is missing in `after`
        NothingDropped(before, after) ==
          /\ after # None
          /\ Len(after.exterior) = Len(before.exterior)
          /\ Len(after.interiors) = Len(before.interiors)
          /\ \A k \in DOMAIN before.interiors :
               k \in DOMAIN after.interiors
                 => Len(after.interiors[k]) = Len(before.interiors[k])
        valid_parts == SelectSeq(cleaned, KeptPart)
        same_parts == \A k \in DOMAIN cleaned : NothingDropped(geometry.geoms[k], cleaned[k])
    IN IF valid_parts # <<>>
         THEN IF Raises(geometry, "Polygon") THEN None
              ELSE MultiPolygon(valid_parts, geometry, same_parts)
         ELSE None
  ELSE geometry                                          \* lines 122-123

(* is_3d, lines 245-250 *)
is_3d(coords) == \E i \in DOMAIN coords : Len(coords[i]) > 2

(* strip_z, lines 252-253 *)
strip_z(coords) == [i \in DOMAIN coords |-> <<coords[i][1], coords[i][2]>>]

(* Polygon(strip_z(exterior), [strip_z(ring) ...]) of lines 261-263 and    *)
(* 274-276: the same rings without Z                                       *)
StripPolygon(p) ==
  Polygon(strip_z(p.exterior), [k \in DOMAIN p.interiors |-> strip_z(p.interiors[k])],
          p, TRUE, TRUE)

(* shapely.geometry.mapping: the GeoJSON-like dict of a geometry, with     *)
(* every ordinate of every coordinate                                      *)
mapping(g) ==
  [type |-> g.geom_type,
   coordinates |-> [exterior |-> g.exterior, interiors |-> g.interiors, coords |-> g.coords],
   geometries |-> g.geoms]

(* shapely.geometry.shape of json.loads(json.dumps(m)); `like` is the      *)
(* geometry the dict was made of, whose shape the result has               *)
shape(m, like) ==
  Geometry(m.type, m.coordinates.exterior, m.coordinates.interiors, m.geometries,
           m.coordinates.coords, like.is_valid, like.area, like.shapely)

(* geometry.wkt: the type, the tag ' Z' of a geometry with Z, and the      *)
(* coordinates with all their ordinates                                    *)
wkt(g) == [type |-> g.geom_type, z_tag |-> has_z(g), body |-> mapping(g)]

(* .replace(' Z', '').replace(' z', ''), line 292: the tag goes, the       *)
(* numbers stay                                                            *)
RemoveZTag(text) == [text EXCEPT !.z_tag = FALSE]

(* shapely.wkt.loads, line 294: the reader takes as many ordinates per     *)
(* coordinate as the text has numbers, with or without the tag             *)
wkt_loads(text, like) == shape(text.body, like)

(* _convert_3d_to_2d, lines 241-297: the try block, whose branches go by   *)
(* type (lines 255-286), and, when one of them raises, the WKT fallback of *)
(* lines 288-297                                                           *)
_convert_3d_to_2d(geometry) ==
  LET try ==
        IF geometry.geom_type = "Polygon" THEN
          IF ~is_3d(geometry.exterior) THEN [raised |-> FALSE, value |-> geometry]
          ELSE IF Raises(geometry, "Polygon") THEN [raised |-> TRUE, value |-> None]
          ELSE [raised |-> FALSE, value |-> StripPolygon(geometry)]
        ELSE IF geometry.geom_type = "MultiPolygon" THEN
          IF \A k \in DOMAIN geometry.geoms : ~is_3d(geometry.geoms[k].exterior)
            THEN [raised |-> FALSE, value |-> geometry]
          ELSE IF Raises(geometry, "Polygon") THEN [raised |-> TRUE, value |-> None]
          ELSE LET polys == [k \in DOMAIN geometry.geoms |->
                               StripPolygon(geometry.geoms[k])]
                   Keep(poly) == poly.is_valid /\ Len(poly.exterior) >= 4
                   valid_polys == SelectSeq(polys, Keep)
               IN [raised |-> FALSE,
                   value |-> IF valid_polys # <<>>
                               THEN MultiPolygon(valid_polys, geometry,
                                                 Len(valid_polys) = Len(polys))
                               ELSE None]
        ELSE \* line 286
          IF Raises(geometry, "shape") THEN [raised |-> TRUE, value |-> None]
          ELSE [raised |-> FALSE, value |-> shape(mapping(geometry), geometry)]
  IN IF ~try.raised THEN try.value
     ELSE IF Raises(geometry, "wkt_loads") THEN None
     ELSE wkt_loads(RemoveZTag(wkt(geometry)), geometry)

(* shapely.validation.make_valid: a valid geometry is returned as it is;  *)
(* for an invalid one the result is the geometry's `make_valid` answer:    *)
(*  "same_type"     a valid geometry of the same type                      *)
(*  "multipolygon"  a valid MultiPolygon (a Polygon split into parts)      *)
(*  "linestring"    a valid LineString (a polygon collapsed to a line)     *)
(*  "collection"    a valid GeometryCollection of a polygon and a line     *)
(*  "invalid"       a geometry that is still invalid                       *)
make_valid(geometry) ==
  LET answer == geometry.shapely.make_valid
      valid_copy(g) == [g EXCEPT !.is_valid = TRUE]
      outline == IF geometry.geom_type = "Polygon" THEN geometry.exterior
                 ELSE IF geometry.geoms # <<>> THEN geometry.geoms[1].exterior
                 ELSE geometry.coords
  IN IF geometry.is_valid \/ answer = "invalid" THEN geometry
     ELSE IF answer = "linestring"
       THEN Geometry("LineString", <<>>, <<>>, <<>>, outline, TRUE, 0, geometry.shapely)
     ELSE IF answer = "collection"
       THEN Geometry("GeometryCollection", <<>>, <<>>,
                     IF geometry.geom_type = "Polygon" THEN <<valid_copy(geometry)>>
                     ELSE [k \in DOMAIN geometry.geoms |-> valid_copy(geometry.geoms[k])],
                     outline, TRUE, geometry.area, geometry.shapely)
     ELSE IF answer = "multipolygon" /\ geometry.geom_type = "Polygon"
       THEN Geometry("MultiPolygon", <<>>, <<>>, <<valid_copy(geometry)>>, <<>>, TRUE,
                     geometry.area, geometry.shapely)
     ELSE [valid_copy(geometry) EXCEPT
             !.geoms = [k \in DOMAIN geometry.geoms |-> valid_copy(geometry.geoms[k])]]

(* repaired.simplify(0.000001).buffer(0), lines 38-39, by the geometry's   *)
(* `buffer` answer: "valid" (a valid polygon of the same area), "invalid", *)
(* "empty" (the empty polygon)                                             *)
simplify_buffer(repaired) ==
  LET answer == repaired.shapely.buffer
  IN IF answer = "empty"
       THEN Geometry("Polygon", <<>>, <<>>, <<>>, <<>>, TRUE, 0, repaired.shapely)
       ELSE [repaired EXCEPT !.is_valid = (answer = "valid")]

(* a repair that never rejects a polygon for its area *)
_repair_geometry_KeepsDegenerate(geometry) ==
  IF Raises(geometry, "make_valid") THEN None
  ELSE LET repaired == make_valid(geometry)
       IN IF repaired.is_valid THEN repaired
          ELSE LET buffered == simplify_buffer(repaired)
               IN IF ~Raises(geometry, "buffer") /\ buffered.is_valid THEN buffered ELSE None

(* a repair that keeps every valid part of a MultiPolygon, whatever its area *)
_repair_geometry_KeepsSmallParts(geometry) ==
  IF Raises(geometry, "make_valid") THEN None
  ELSE
    LET repaired == make_valid(geometry)
    IN IF repaired.is_valid THEN repaired
       ELSE IF repaired.geom_type = "MultiPolygon" THEN
         LET Keep(part) == part.is_valid
             valid_parts == SelectSeq(repaired.geoms, Keep)
         IN IF valid_parts # <<>>
              THEN MultiPolygon(valid_parts, repaired, Len(valid_parts) = Len(repaired.geoms))
              ELSE None
       ELSE _repair_geometry_KeepsDegenerate(geometry)

(* _repair_geometry, lines 22-56 *)
_repair_geometry(geometry) ==
  IF Raises(geometry, "make_valid") THEN None            \* lines 54-56
  ELSE
    LET repaired == make_valid(geometry)
    IN IF ~repaired.is_valid THEN
         IF repaired.geom_type = "Polygon" THEN
           IF repaired.area < AreaEps THEN None
           ELSE IF Raises(geometry, "buffer") THEN None
           ELSE LET buffered == simplify_buffer(repaired)
                IN IF buffered.is_valid /\ buffered.area > 0 THEN buffered ELSE None
         ELSE IF repaired.geom_type = "MultiPolygon" THEN
           LET Keep(part) == part.is_valid /\ part.area > AreaEps
               valid_parts == SelectSeq(repaired.geoms, Keep)
           IN IF valid_parts # <<>>
                THEN MultiPolygon(valid_parts, repaired,
                                  Len(valid_parts) = Len(repaired.geoms))
                ELSE None
         ELSE None
       ELSE repaired

(* shapely.wkb.dumps: the type, the number of ordinates per coordinate     *)
(* (three when the geometry has Z) and the coordinates                     *)
wkb_dumps(g) ==
  [format |-> "wkb", type |-> g.geom_type, dimension |-> IF has_z(g) THEN 3 ELSE 2,
   body |-> mapping(g)]

(* the return value of a call: what it returned, or that it raised, and    *)
(* the steps it went through                                               *)
Returned(value, steps) == [raised |-> FALSE, value |-> value, steps |-> steps]
Raised(steps) == [raised |-> TRUE, value |-> None, steps |-> steps]

(* the parcel_id whose calls print the diagnostics of lines 141-148 *)
DebugParcel == "teton_county_wy_000001"

(* the values of parcel_id: absent, and the two the source singles out     *)
ParcelIds == {NULL, DebugParcel, "22-38-15-01-1-00-001"}

(* ---------------------------------------------------------------------- *)
(* The geometries the functions are called with                            *)
(* ---------------------------------------------------------------------- *)

(* the longest ring (number of coordinates, the closing one included) *)
MaxRing == 5

(* the largest number of parts of a MultiPolygon *)
MaxParts == 2

(* The geometry of a call.  Coordinates: a valid one ("ok"), one outside   *)
(* the longitude range ("far"), one with a NaN longitude ("nan"); all      *)
(* coordinates of a geometry have Z (z) or none has.  Inputs: a Polygon of *)
(* any closed ring with at most one hole; a Polygon of a simple ring,      *)
(* valid or not, with any answer of shapely; a MultiPolygon of             *)
(* 1..MaxParts parts (a ring that stays as it is, one that loses a         *)
(* coordinate and is kept, one that loses a coordinate and goes; valid     *)
(* with area above and below the threshold, or invalid); a Point or a      *)
(* LineString; the empty Polygon; None.                                    *)
GeomInit ==
  LET Coord(kind, z) ==
        LET xy == IF kind = "ok" THEN <<Num(0), Num(0)>>
                  ELSE IF kind = "far" THEN <<Num(181), Num(0)>>
                  ELSE <<NaN, Num(0)>>
        IN IF z THEN Append(xy, Num(7)) ELSE xy
      \* closed rings of 4..MaxRing coordinates
      ClosedRings(z) ==
        UNION { { [i \in 1..n |-> Coord(IF i = n THEN k[1] ELSE k[i], z)] :
                    k \in [1..(n - 1) -> {"ok", "far", "nan"}] } : n \in 4..MaxRing }
      \* closed rings whose coordinates are valid but possibly the second
      SimpleRings(z) ==
        { [i \in 1..n |-> Coord(IF i = 2 THEN second ELSE "ok", z)] :
            n \in 4..MaxRing, second \in {"ok", "far"} }
      HasNaN(ring) == \E i \in DOMAIN ring : isnan(ring[i][1])
      \* shapely's answers when nothing goes wrong
      DefaultAnswers ==
        [make_valid |-> "same_type", buffer |-> "valid", rebuilt_valid |-> TRUE,
         raises |-> {}]
      \* the calls in which shapely raises for a geometry
      RaiseSets ==
        { {}, {"make_valid"}, {"buffer"}, {"Polygon"}, {"shape"}, {"shape", "wkt_loads"},
          {"Polygon", "wkt_loads"}, {"wkb_dumps"} }
      \* shapely's answers for an invalid geometry of the given area: a polygon
      \* without area collapses to a line, one with area keeps a polygon;
      \* buffer is asked only after "invalid"
      AnswersFor(area) ==
        { a \in [make_valid : IF area = 0 THEN {"linestring", "invalid"}
                              ELSE {"same_type", "multipolygon", "collection", "invalid"},
                 buffer : {"valid", "invalid", "empty"}, rebuilt_valid : BOOLEAN,
                 raises : RaiseSets] :
            a.make_valid # "invalid" => a.buffer = "valid" }
      \* make_valid is asked only about an invalid geometry
      MakeValidAnswers(valid, answers) == IF valid THEN {"same_type"} ELSE answers
      RingPolygonInput ==
        \E z \in BOOLEAN : \E ext \in ClosedRings(z) :
          \E ints \in {<<>>} \cup { <<h>> : h \in SimpleRings(z) } :
            \E valid \in (IF HasNaN(ext) THEN {FALSE} ELSE BOOLEAN) : \E rv \in BOOLEAN :
              geom_input = Geometry("Polygon", ext, ints, <<>>, <<>>, valid, 3,
                                    [DefaultAnswers EXCEPT !.rebuilt_valid = rv])
      AnswerPolygonInput ==
        \E z \in BOOLEAN : \E ext \in SimpleRings(z) :
          \/ \E area \in 0..3 : \E answers \in AnswersFor(area) :
               geom_input = Geometry("Polygon", ext, <<>>, <<>>, <<>>, FALSE, area, answers)
          \/ \E rv \in BOOLEAN : \E rs \in RaiseSets :
               geom_input = Geometry("Polygon", ext, <<>>, <<>>, <<>>, TRUE, 3,
                                     [DefaultAnswers EXCEPT !.rebuilt_valid = rv,
                                                            !.raises = rs])
      \* polygons with two holes
      HolesPolygonInput ==
        \E z \in BOOLEAN : \E ext \in SimpleRings(z) :
          \E ints \in [1..2 -> SimpleRings(z)] : \E valid \in BOOLEAN : \E rv \in BOOLEAN :
            geom_input = Geometry("Polygon", ext, ints, <<>>, <<>>, valid, 3,
                                  [DefaultAnswers EXCEPT !.rebuilt_valid = rv])
      PartPolygons(z) ==
        { Geometry("Polygon", ext, <<>>, <<>>, <<>>, fact[1], fact[2], DefaultAnswers) :
            ext \in { r \in SimpleRings(z) :
                        Len(r) = 4 \/ (Len(r) = 5 /\ r[2] # Coord("ok", z)) },
            fact \in { <<TRUE, 3>>, <<TRUE, 1>>, <<FALSE, 3>> } }
      MultiPolygonInput ==
        \E z \in BOOLEAN : \E n \in 1..MaxParts : \E parts \in [1..n -> PartPolygons(z)] :
          \E valid \in BOOLEAN :
            \E mv \in MakeValidAnswers(valid, {"same_type", "invalid", "collection"}) :
              \E rv \in BOOLEAN : \E rs \in {{}, {"make_valid"}} :
                geom_input = Geometry("MultiPolygon", <<>>, <<>>, parts, <<>>, valid, 3,
                                      [make_valid |-> mv, buffer |-> "valid",
                                       rebuilt_valid |-> rv, raises |-> rs])
      OtherGeometryInput ==
        \E z \in BOOLEAN : \E type \in {"Point", "LineString"} :
          \E kind \in {"ok", "far"} : \E valid \in BOOLEAN :
            \E mv \in MakeValidAnswers(valid, {"same_type", "invalid"}) :
              \E rs \in RaiseSets :
                geom_input = Geometry(type, <<>>, <<>>, <<>>, <<Coord(kind, z)>>, valid, 0,
                                      [make_valid |-> mv, buffer |-> "valid",
                                       rebuilt_valid |-> TRUE, raises |-> rs])
      EmptyPolygon == Geometry("Polygon", <<>>, <<>>, <<>>, <<>>, TRUE, 0, DefaultAnswers)
  IN /\ \/ RingPolygonInput \/ AnswerPolygonInput \/ HolesPolygonInput \/ MultiPolygonInput
        \/ OtherGeometryInput \/ geom_input \in {EmptyPolygon, None}
     /\ geom_pc = "entry"
     /\ geom_parcel_id = NULL
     /\ geom_local = geom_input
     /\ geom_steps = <<>>
     /\ geom_result = <<>>
     /\ NoUpsert
     /\ NoMigration
     /\ NoAttrCall
     /\ NoManager

(* the record of a call *)
Call(fn, parcel_id, out) == [fn |-> fn, parcel_id |-> parcel_id, out |-> out]

(* safe_geometry_to_wkb ends: it returns `value`, or raises *)
SafeEnds(parcel_id, out) ==
  /\ geom_result' = Append(geom_result, Call("safe_geometry_to_wkb", parcel_id, out))
  /\ geom_pc' = "done"
  /\ geom_parcel_id' = parcel_id
  /\ geom_steps' = out.steps
  /\ UNCHANGED <<geom_input, geom_local>>

(* safe_geometry_to_wkb goes on to its next step with `value` as geometry *)
SafeGoesOn(pos, value, steps) ==
  /\ geom_pc' = pos
  /\ geom_local' = value
  /\ geom_steps' = steps
  /\ UNCHANGED <<geom_input, geom_parcel_id, geom_result>>

(* safe_geometry_to_wkb(geometry, parcel_id) is called, lines 138-159: the *)
(* diagnostics of the debug parcel, the None check, the emptiness check    *)
SafeEntry ==
  /\ geom_pc = "entry"
  /\ \E parcel_id \in ParcelIds :
       \* lines 141-148: geometry.geom_type is read before the None check
       \* and outside the try block
       IF parcel_id = DebugParcel /\ geom_input = None
         THEN SafeEnds(parcel_id, Raised(<<"diagnostics">>))
       ELSE IF geom_input = None                               \* lines 151-153
         THEN SafeEnds(parcel_id, Returned(None, <<"null_check">>))
       ELSE IF is_empty(geom_input)                            \* lines 157-159
         THEN SafeEnds(parcel_id, Returned(None, <<"null_check", "empty_check">>))
       ELSE /\ geom_pc' = "validity"
            /\ geom_parcel_id' = parcel_id
            /\ geom_steps' = <<"null_check", "empty_check">>
            /\ UNCHANGED <<geom_input, geom_local, geom_result>>
  /\ UNCHANGED outside_geom

(* a validity check that lets an invalid geometry through *)
CheckAndRepair_LetsThrough(next) ==
  SafeGoesOn(next, geom_local, Append(geom_steps, "validity_check"))

(* the validity check and the repair of an invalid geometry, lines 162-177 *)
(* and lines 216-223; `next` is the position after it                      *)
CheckAndRepair(next) ==
  LET checked == Append(geom_steps, "validity_check")
  IN IF geom_local.is_valid THEN SafeGoesOn(next, geom_local, checked)
     ELSE \E repaired \in {_repair_geometry(geom_local)} :
            IF repaired # None /\ repaired.is_valid
              THEN SafeGoesOn(next, repaired, Append(checked, "repair"))
              ELSE SafeEnds(geom_parcel_id, Returned(None, Append(checked, "repair")))

(* lines 162-177 *)
SafeValidity ==
  /\ geom_pc = "validity"
  /\ CheckAndRepair("clean")
  /\ UNCHANGED outside_geom

(* lines 180-187 *)
SafeClean ==
  /\ geom_pc = "clean"
  /\ \E cleaned_geometry \in {_validate_and_clean_coordinates(geom_local)} :
       IF cleaned_geometry = None
         THEN SafeEnds(geom_parcel_id, Returned(None, Append(geom_steps, "clean")))
         ELSE SafeGoesOn("convert", cleaned_geometry, Append(geom_steps, "clean"))
  /\ UNCHANGED outside_geom

(* lines 200-203 *)
SafeConvert ==
  /\ geom_pc = "convert"
  /\ \E geom_2d \in {_convert_3d_to_2d(geom_local)} :
       IF geom_2d = None
         THEN SafeEnds(geom_parcel_id, Returned(None, Append(geom_steps, "convert")))
         ELSE SafeGoesOn("validity_2d", geom_2d, Append(geom_steps, "convert"))
  /\ UNCHANGED outside_geom

(* lines 216-223 *)
SafeValidity2d ==
  /\ geom_pc = "validity_2d"
  /\ CheckAndRepair("encode")
  /\ UNCHANGED outside_geom

(* lines 226-239 *)
SafeEncode ==
  /\ geom_pc = "encode"
  /\ SafeEnds(geom_parcel_id,
              Returned(IF Raises(geom_local, "wkb_dumps") THEN None ELSE wkb_dumps(geom_local),
                       Append(geom_steps, "wkb_dumps")))
  /\ UNCHANGED outside_geom

(* DatabaseManager.safe_geometry_to_wkb, lines 138-239, step by step *)
safe_geometry_to_wkb ==
  SafeEntry \/ SafeValidity \/ SafeClean \/ SafeConvert \/ SafeValidity2d \/ SafeEncode

(* a function called on its own returns *)
Returns(fn, value) ==
  /\ geom_result' = << Call(fn, NULL, Returned(value, <<>>)) >>
  /\ geom_pc' = "done"
  /\ UNCHANGED <<geom_input, geom_parcel_id, geom_local, geom_steps>>

(* DatabaseManager._repair_geometry(geometry) is called *)
CallRepairGeometry ==
  /\ geom_pc = "entry" /\ geom_input # None
  /\ Returns("_repair_geometry", _repair_geometry(geom_input))
  /\ UNCHANGED outside_geom

(* DatabaseManager._validate_and_clean_coordinates(geometry) is called *)
CallValidateAndClean ==
  /\ geom_pc = "entry" /\ geom_input # None
  /\ Returns("_validate_and_clean_coordinates", _validate_and_clean_coordinates(geom_input))
  /\ UNCHANGED outside_geom

(* DatabaseManager._convert_3d_to_2d(geometry) is called *)
CallConvert3dTo2d ==
  /\ geom_pc = "entry" /\ geom_input # None
  /\ Returns("_convert_3d_to_2d", _convert_3d_to_2d(geom_input))
  /\ UNCHANGED outside_geom

GeomNext ==
  \/ safe_geometry_to_wkb
  \/ CallRepairGeometry \/ CallValidateAndClean \/ CallConvert3dTo2d

GeomSpec == GeomInit /\ [][GeomNext]_vars

(* ---------------------------------------------------------------------- *)
(* safe_geometry_to_wkb called twice with the same geometry                *)
(* ---------------------------------------------------------------------- *)

(* The geometry of the two calls: None, an empty Polygon, a Point or a     *)
(* LineString, or a Polygon without holes whose exterior starts with a     *)
(* coordinate in range.                                                    *)
TwiceInit ==
  /\ GeomInit
  /\ \/ geom_input = None
     \/ /\ geom_input.geoms = <<>> /\ geom_input.interiors = <<>>
        /\ geom_input.exterior # <<>> => is_valid_coord(geom_input.exterior[1])

(* the same DatabaseManager is asked again, for the same geometry:         *)
(* update_parcel_data calls safe_geometry_to_wkb once for every row, lines *)
(* 603-605                                                                 *)
SafeCalledAgain ==
  /\ geom_pc = "done" /\ Len(geom_result) = 1
  /\ geom_pc' = "entry"
  /\ geom_parcel_id' = NULL
  /\ geom_local' = geom_input
  /\ geom_steps' = <<>>
  /\ UNCHANGED <<geom_input, geom_result>>
  /\ UNCHANGED outside_geom

TwiceNext == safe_geometry_to_wkb \/ SafeCalledAgain

TwiceSpec == TwiceInit /\ [][TwiceNext]_vars

(* ---------------------------------------------------------------------- *)
(* is_valid_coord and clean_coords called on their own                     *)
(* ---------------------------------------------------------------------- *)

(* The argument of a call: a list of up to MaxRing coordinates taken from  *)
(* a valid 2-D one, a valid one with Z on the bounds, one outside the      *)
(* range, one with NaN and one with a single ordinate ("coords"); or one   *)
(* coordinate of 0 to 3 ordinates, each ordinate on, inside or outside the *)
(* bounds, NaN or infinite ("coord").                                      *)
RingInit ==
  LET NegInf == [kind |-> "inf", v |-> -1]
      Samples == { <<Num(0), Num(0)>>, <<Num(180), Num(-90), Num(7)>>, <<Num(181), Num(0)>>,
                   <<NaN, Num(0)>>, <<Num(0)>> }
      Lons == {Num(-181), Num(-180), Num(0), Num(180), Num(181), NaN, PosInf, NegInf}
      Lats == {Num(-91), Num(-90), Num(0), Num(90), Num(91), NaN, PosInf, NegInf}
  IN /\ \/ \E n \in 0..MaxRing : \E ring \in [1..n -> Samples] :
             geom_input = [geom_type |-> "coords", coords |-> ring]
        \/ \E lon \in Lons : \E lat \in Lats :
             \E c \in { <<>>, <<lon>>, <<lon, lat>>, <<lon, lat, Num(7)>>, <<lon, lat, NaN>> } :
               geom_input = [geom_type |-> "coord", coords |-> <<c>>]
     /\ geom_pc = "entry"
     /\ geom_parcel_id = NULL
     /\ geom_local = geom_input
     /\ geom_steps = <<>>
     /\ geom_result = <<>>
     /\ NoUpsert
     /\ NoMigration
     /\ NoAttrCall
     /\ NoManager

(* is_valid_coord(coord) is called *)
CallIsValidCoord ==
  /\ geom_pc = "entry" /\ geom_input.geom_type = "coord"
  /\ Returns("is_valid_coord", is_valid_coord(geom_input.coords[1]))
  /\ UNCHANGED outside_geom

(* clean_coords(coords) is called on the argument, and once more on what   *)
(* the call before returned                                                *)
CallCleanCoords ==
  /\ geom_input.geom_type = "coords" /\ Len(geom_result) < 2
  /\ LET coords == IF geom_result = <<>> THEN geom_input.coords
                   ELSE geom_result[Len(geom_result)].out.value.cleaned
     IN geom_result' =
          Append(geom_result,
                 Call("clean_coords", NULL,
                      Returned([cleaned |-> clean_coords(coords),
                                dropped |-> dropped(coords)], <<>>)))
  /\ geom_pc' = "done"
  /\ UNCHANGED <<geom_input, geom_parcel_id, geom_local, geom_steps>>
  /\ UNCHANGED outside_geom

RingNext == CallIsValidCoord \/ CallCleanCoords

RingSpec == RingInit /\ [][RingNext]_vars

(* ====================================================================== *)
(* Attribute values: _clean_properties_for_json, _parse_numeric and the    *)
(* attribute part of update_parcel_data's loop body                        *)
(* ====================================================================== *)

(* Python values: None, str (a sequence of characters), float, int, list,  *)
(* dict                                                                    *)
PyNone == [type |-> "NoneType"]
Str(s) == [type |-> "str", s |-> s]
Float(x) == [type |-> "float", x |-> x]
PyInt(n) == [type |-> "int", n |-> n]
List(items) == [type |-> "list", items |-> items]
Dict(items) == [type |-> "dict", items |-> items]

(* the string literals of the source *)
nan_str == <<"n", "a", "n">>
null_str == <<"n", "u", "l", "l">>

(* str.lower *)
lower(s) == [i \in DOMAIN s |-> IF s[i] = "N" THEN "n" ELSE s[i]]

(* float(val), line 503: a float or an int gives its value; a string is    *)
(* stripped of leading and trailing blanks and read as decimal digits or   *)
(* as 'nan' in any letter case; anything else raises (ValueError,          *)
(* TypeError)                                                              *)
float(val) ==
  LET RECURSIVE lstrip(_)
      lstrip(s) == IF s # <<>> /\ s[1] = " " THEN lstrip(Tail(s)) ELSE s
      RECURSIVE rstrip(_)
      rstrip(s) ==
        IF s # <<>> /\ s[Len(s)] = " " THEN rstrip(SubSeq(s, 1, Len(s) - 1)) ELSE s
      IsDigit(c) == c \in {"0", "1"}
      \* the number a string of decimal digits denotes
      RECURSIVE Decimal(_)
      Decimal(t) ==
        IF t = <<>> THEN 0
        ELSE 10 * Decimal(SubSeq(t, 1, Len(t) - 1)) + (IF t[Len(t)] = "1" THEN 1 ELSE 0)
  IN IF val.type = "float" THEN [raised |-> FALSE, value |-> val.x]
     ELSE IF val.type = "int" THEN [raised |-> FALSE, value |-> Num(val.n)]
     ELSE IF val.type = "str" THEN
       LET t == rstrip(lstrip(val.s))
       IN IF t # <<>> /\ \A i \in DOMAIN t : IsDigit(t[i])
            THEN [raised |-> FALSE, value |-> Num(Decimal(t))]
          ELSE IF lower(t) = nan_str THEN [raised |-> FALSE, value |-> NaN]
          ELSE [raised |-> TRUE, value |-> NaN]
     ELSE [raised |-> TRUE, value |-> NaN]

(* a _parse_numeric without the test of line 501 *)
_parse_numeric_NoSentinels(val) ==
  LET f == float(val)
  IN Returned(IF f.raised THEN PyNone ELSE Float(f.value), <<>>)

(* _parse_numeric, lines 499-505 *)
_parse_numeric(val) ==
  IF val \in {PyNone, Str(<<>>), Str(null_str), Str(nan_str)}
    THEN Returned(PyNone, <<>>)                          \* lines 501-502
  ELSE LET f == float(val)
       IN IF f.raised THEN Returned(PyNone, <<>>)        \* lines 504-505
          ELSE Returned(Float(f.value), <<>>)            \* line 503

(* clean_value, lines 485-495 *)
RECURSIVE clean_value(_)
clean_value(value) ==
  IF value.type = "float" /\ isnan(value.x) THEN PyNone
  ELSE IF value.type = "str" /\ lower(value.s) \in {nan_str, null_str, <<>>} THEN PyNone
  ELSE IF value.type = "dict"
    THEN Dict([k \in DOMAIN value.items |-> clean_value(value.items[k])])
  ELSE IF value.type = "list"
    THEN List([i \in DOMAIN value.items |-> clean_value(value.items[i])])
  ELSE value

(* _clean_properties_for_json, lines 481-497 *)
_clean_properties_for_json(properties_dict) == clean_value(properties_dict)

(* json.dumps(cleaned_props), line 592: the JSON text of the object.  Its  *)
(* result, properties_json, is used by no later statement.                 *)
json_dumps(obj) == [format |-> "json", text_of |-> obj]

(* the columns of the row whose values are followed: one bound as it is    *)
(* read, one bound after _parse_numeric                                    *)
Columns == {"owner_name", "acreage"}

(* row.get(key, default) *)
Get(row, key, default) == IF key \in DOMAIN row THEN row[key] ELSE default

(* the values of the statement bound to the row: the tuple of lines        *)
(* 627-633 (and of the other five statements), the two followed columns;   *)
(* lines 546-592 and 627-633 of update_parcel_data                         *)
StatementParameters(row) ==
  LET owner_name == Get(row, "owner_name", Str(<<>>))                \* line 548
      acreage == _parse_numeric(Get(row, "acreage", Str(<<>>))).value \* line 550
      \* lines 572-588
      simple_props == Dict([k \in Columns |-> IF k = "owner_name" THEN owner_name ELSE acreage])
      cleaned_props == _clean_properties_for_json(simple_props)            \* line 591
      properties_json == json_dumps(cleaned_props)                         \* line 592
  IN [simple_props |-> simple_props,
      properties_json |-> properties_json,
      \* lines 627-633: the local variables, not cleaned_props
      parameters |-> [k \in Columns |-> IF k = "owner_name" THEN owner_name ELSE acreage]]

(* the longest string *)
MaxStr == 4

(* The argument of a call: a scalar (None, a number, any string of up to   *)
(* MaxStr characters), a list or a dict of values with one level of        *)
(* nesting inside, or a row of the input with some of the columns.         *)
AttrInit ==
  LET Alphabet == {"n", "a", "u", "l", "N", "1", " "}
      \* values of the kinds the functions tell apart
      SampleValues ==
        { PyNone, Str(<<>>), Str(nan_str), Str(<<"N", "u", "l", "l">>), Str(<<"1", "1">>),
          Str(<<"a">>), Float(NaN), Float(Num(1)), PyInt(1) }
      ScalarInput ==
        \/ attr_input \in {PyNone, Float(NaN), Float(PosInf), Float(Num(1)), PyInt(1)}
        \/ \E k \in 0..MaxStr : \E s \in [1..k -> Alphabet] : attr_input = Str(s)
      NestedInput ==
        \E a \in SampleValues, b \in SampleValues :
          \/ attr_input = List(<<a, b>>)
          \/ attr_input = Dict([k \in Columns |-> IF k = "owner_name" THEN a ELSE List(<<b>>)])
      RowInput ==
        \E D \in SUBSET Columns : \E cols \in [D -> SampleValues] :
          attr_input = [type |-> "row", cols |-> cols]
  IN /\ ScalarInput \/ NestedInput \/ RowInput
     /\ attr_result = <<>>
     /\ NoUpsert
     /\ NoMigration
     /\ NoGeomCall
     /\ NoManager

(* DatabaseManager._parse_numeric(val) is called *)
CallParseNumeric ==
  /\ attr_result = <<>> /\ attr_input.type # "row"
  /\ attr_result' = << Call("_parse_numeric", NULL, _parse_numeric(attr_input)) >>
  /\ UNCHANGED attr_input
  /\ UNCHANGED outside_attr

(* DatabaseManager._clean_properties_for_json(properties_dict) is called *)
CallCleanProperties ==
  /\ attr_result = <<>> /\ attr_input.type # "row"
  /\ attr_result' = << Call("_clean_properties_for_json", NULL,
                            Returned(_clean_properties_for_json(attr_input), <<>>)) >>
  /\ UNCHANGED attr_input
  /\ UNCHANGED outside_attr

(* update_parcel_data reads the attributes of a row and binds them to the  *)
(* statement it executes                                                   *)
BindRow ==
  /\ attr_result = <<>> /\ attr_input.type = "row"
  /\ attr_result' = << Call("update_parcel_data", NULL,
                            Returned(StatementParameters(attr_input.cols), <<>>)) >>
  /\ UNCHANGED attr_input
  /\ UNCHANGED outside_attr

AttrNext == CallParseNumeric \/ CallCleanProperties \/ BindRow

AttrSpec == AttrInit /\ [][AttrNext]_vars

(* ---------------------------------------------------------------------- *)
(* src/community_view_manager.py                                           *)
(* ---------------------------------------------------------------------- *)

(* the scheduled jobs a daemon runs before it is stopped *)
MaxTicks == 2

(* an entry of the run's record *)
Event(event, data) == [event |-> event, data |-> data]

(* CommunityViewManager.check_service_status, lines 283-322: the database  *)
(* key exists only when config["health_checks"]["database_check"] is set   *)
check_service_status(world, config) ==
  [service \in {"search_api", "tegola"}
                 \cup (IF config.database_check THEN {"database"} ELSE {}) |->
     world[service]]

(* CommunityViewManager.start_services, lines 143-240, by what the start   *)
(* script did: "ok" (exit code 0), "failed" (another exit code),           *)
(* "port_conflict" (another exit code, with "address already in use" in    *)
(* its output), "timeout", "raised"                                        *)
start_services(script, world, config) ==
  IF script = "timeout" \/ script = "raised" THEN FALSE        \* lines 196-202, 235-240
  ELSE IF script = "ok" THEN TRUE                              \* lines 220-222
  ELSE IF script = "port_conflict"                             \* lines 226-233
    THEN LET status == check_service_status(world, config)
         \* line 230: a key the status does not have gives None
         IN Get(status, "search_api_running", FALSE) /\ Get(status, "tegola_running", FALSE)
  ELSE FALSE

(* CommunityViewManager.stop_services, lines 242-277 *)
stop_services(script) == script = "ok"

(* CommunityViewManager.run_data_update_cycle, lines 359-509, by what the  *)
(* ownership pipeline and the search file generator did ("ok", "failed":   *)
(* a return code other than 0, "raised"); every exception is caught inside *)
(* and the results are returned                                            *)
run_data_update_cycle(config, pipeline, index) ==
  [counties_processed |-> IF pipeline = "ok" THEN config.counties ELSE <<>>,
   database_migrations |-> IF pipeline = "ok" THEN config.counties ELSE <<>>,
   counties_failed |-> IF pipeline = "ok" THEN <<>> ELSE config.counties,
   search_index_updated |-> index = "ok",
   errors |->
     (IF pipeline = "failed" THEN <<"Failed to process counties with ownership pipeline">>
      ELSE IF pipeline = "raised" THEN <<"Error running ownership pipeline">>
      ELSE <<>>)
     \o (IF index = "failed" THEN <<"Failed to rebuild search index">>
         ELSE IF index = "raised" THEN <<"Error rebuilding search index">>
         ELSE <<>>)]

(* CommunityViewManager.send_notification_email, lines 515-573: what it    *)
(* adds to the record.  Line 543 imports MimeText from email.mime.text,    *)
(* which has no such name (it has MIMEText): the ImportError is caught at  *)
(* line 572 and no message is sent                                         *)
send_notification_email(config, subject, is_error) ==
  IF config.notification_email = "" THEN << Event("no_email_configured", subject) >>
  ELSE << Event("email_failed", subject) >>

(* the outcomes of a script or a subprocess *)
Outcomes == {"ok", "failed", "raised"}

MgrInit ==
  /\ mgr_command \in {"start", "stop", "status", "update", "daemon", "health"}  \* line 695
  /\ mgr_config \in [database_check : BOOLEAN, notification_email : {"", "ops@example.org"},
                     counties : {<<"teton_county_wy", "teton_county_id">>}]
  /\ mgr_world \in [search_api : BOOLEAN, tegola : BOOLEAN, database : BOOLEAN]
  /\ mgr_pc = "main"
  /\ mgr_ticks = 0
  /\ mgr_log = <<>>
  /\ mgr_exit = -1
  /\ NoUpsert
  /\ NoMigration
  /\ NoGeomCall
  /\ NoAttrCall

(* sys.exit(code), or main() returning (code 0), or an exception nobody    *)
(* catches (code 1)                                                        *)
Exits(code, log) ==
  /\ mgr_pc' = "exited"
  /\ mgr_exit' = code
  /\ mgr_log' = log
  /\ UNCHANGED <<mgr_command, mgr_config, mgr_world, mgr_ticks>>

(* the start command, lines 705-707 *)
MainStart ==
  /\ mgr_pc = "main" /\ mgr_command = "start"
  /\ \E script \in Outcomes \cup {"port_conflict", "timeout"} :
       LET success == start_services(script, mgr_world, mgr_config)
       IN Exits(IF success THEN 0 ELSE 1, << Event("start_services", script) >>)
  /\ UNCHANGED outside_mgr

(* the stop command, lines 709-711 *)
MainStop ==
  /\ mgr_pc = "main" /\ mgr_command = "stop"
  /\ \E script \in Outcomes :
       Exits(IF stop_services(script) THEN 0 ELSE 1, << Event("stop_services", script) >>)
  /\ UNCHANGED outside_mgr

(* the status command, lines 713-722 *)
MainStatus ==
  /\ mgr_pc = "main" /\ mgr_command = "status"
  /\ LET status == check_service_status(mgr_world, mgr_config)
         all_healthy == \A service \in DOMAIN status : status[service]   \* line 720
     IN Exits(IF all_healthy THEN 0 ELSE 1, << Event("status", status) >>)
  /\ UNCHANGED outside_mgr

(* the update command, lines 724-730: main returns after the prints *)
MainUpdate ==
  /\ mgr_pc = "main" /\ mgr_command = "update"
  /\ \E pipeline \in Outcomes : \E index \in Outcomes :
       LET results == run_data_update_cycle(mgr_config, pipeline, index)
       IN Exits(0, << Event("cycle", results) >>)
  /\ UNCHANGED outside_mgr

(* the health command, lines 732-740: line 733 calls                       *)
(* manager.run_health_checks(), a method CommunityViewManager (lines       *)
(* 64-651) does not have; the AttributeError is caught nowhere             *)
MainHealth ==
  /\ mgr_pc = "main" /\ mgr_command = "health"
  /\ Exits(1, << Event("AttributeError", "run_health_checks") >>)
  /\ UNCHANGED outside_mgr

(* the daemon command, lines 742-743, and run_daemon up to its loop, lines *)
(* 579-620: the services are started, the jobs scheduled, and the first    *)
(* health check run                                                        *)
MainDaemon ==
  /\ mgr_pc = "main" /\ mgr_command = "daemon"
  /\ \E script \in Outcomes \cup {"port_conflict", "timeout"} :
       LET started == << Event("start_services", script) >>
       IN IF ~start_services(script, mgr_world, mgr_config)
            THEN Exits(0, started)                              \* lines 604-606
            ELSE /\ mgr_pc' = "daemon"
                 /\ mgr_log' = Append(started,
                                      Event("status", check_service_status(mgr_world, mgr_config)))
                 /\ UNCHANGED <<mgr_command, mgr_config, mgr_world, mgr_ticks, mgr_exit>>
  /\ UNCHANGED outside_mgr

(* CommunityViewManager._scheduled_data_update, lines 628-640, run by the  *)
(* loop of lines 620-622: run_data_update_cycle raises nothing, so the     *)
(* except branch with its email is not taken                               *)
ScheduledDataUpdate ==
  /\ mgr_pc = "daemon" /\ mgr_ticks < MaxTicks
  /\ \E pipeline \in Outcomes : \E index \in Outcomes : \E raised \in {FALSE} :
       LET result == run_data_update_cycle(mgr_config, pipeline, index)
       IN mgr_log' =
            IF raised
              THEN mgr_log \o send_notification_email(
                                mgr_config, "Community View - Scheduled Update Failed", TRUE)
              ELSE Append(mgr_log, Event("cycle", result))
  /\ mgr_ticks' = mgr_ticks + 1
  /\ UNCHANGED <<mgr_command, mgr_config, mgr_world, mgr_pc, mgr_exit>>
  /\ UNCHANGED outside_mgr

(* CommunityViewManager._scheduled_health_check, lines 642-651 *)
ScheduledHealthCheck ==
  /\ mgr_pc = "daemon" /\ mgr_ticks < MaxTicks
  /\ mgr_log' = Append(mgr_log, Event("status", check_service_status(mgr_world, mgr_config)))
  /\ mgr_ticks' = mgr_ticks + 1
  /\ UNCHANGED <<mgr_command, mgr_config, mgr_world, mgr_pc, mgr_exit>>
  /\ UNCHANGED outside_mgr

(* Ctrl+C in the loop, lines 623-624: run_daemon and main return *)
DaemonStopped ==
  /\ mgr_pc = "daemon"
  /\ Exits(0, mgr_log)
  /\ UNCHANGED outside_mgr

MgrNext ==
  \/ MainStart \/ MainStop \/ MainStatus \/ MainUpdate \/ MainHealth \/ MainDaemon
  \/ ScheduledDataUpdate \/ ScheduledHealthCheck \/ DaemonStopped

MgrSpec == MgrInit /\ [][MgrNext]_vars

TypeOK ==
  /\ pc \in {"row", "commit", "report", "done", "killed"}
  /\ commit_errors <= Len(commit_log)
  /\ run \in {1, 2}
  /\ idx \in 1..(total_rows + 1)


(* ====================================================================== *)
(* Properties                                                              *)
(* ====================================================================== *)

(* the row the next ProcessRow step handles *)
CurrentRow == gdf[idx]

(* a step in which the handling of one row ended in the except clause *)
RowFailedStep == skipped_rows' = skipped_rows + 1

(* a step in which one row was handled without reaching the except clause *)
RowSucceededStep == successful_inserts' = successful_inserts + 1

(* the rows of tbl without their id *)
Attributes(r) ==
  [global_parcel_uid |-> r.global_parcel_uid,
   county_parcel_id_num |-> r.county_parcel_id_num,
   owner_name |-> r.owner_name,
   geometry |-> r.geometry,
   has_spatial_data |-> r.has_spatial_data]

Content(tbl) == { Attributes(r) : r \in tbl }

RowsOf(tbl, uid) == { r \in tbl : r.global_parcel_uid = uid }

UidsOf(tbl) == { r.global_parcel_uid : r \in tbl }

(* ---------------------------------------------------------------------- *)
(* C1: when the handling of one row raises, only that row's statements     *)
(* are rolled back: what the earlier rows of the batch wrote into the open *)
(* transaction is still there after the step (the failing row's own        *)
(* statements changed nothing, so the transaction's table is unchanged).   *)
(* ---------------------------------------------------------------------- *)
C1_OnlyFailedRowRolledBack == [][RowFailedStep => table' = table]_vars

(* ---------------------------------------------------------------------- *)
(* C2: a row failure never aborts the run: the failed row's identifier is  *)
(* put into failed_parcel_ids and the loop moves on to the next row or to  *)
(* the batch's commit; and every run that has started reaches the report   *)
(* with all rows handled and one commit attempted for every batch.         *)
(* ---------------------------------------------------------------------- *)
RunCompleted ==
  /\ pc = "done"
  /\ Len(report) = 1
  /\ idx = total_rows + 1
  /\ successful_inserts + skipped_rows = total_rows
  /\ Len(commit_log) * batch_size >= total_rows
  /\ (Len(commit_log) - 1) * batch_size < total_rows

C2_RowFailureNeverAborts ==
  /\ [][RowFailedStep =>
          /\ CurrentRow.global_parcel_uid \in failed_parcel_ids'
          /\ idx' = idx + 1
          /\ pc' = (IF idx >= batch_end THEN "commit" ELSE "row")]_vars
  /\ ((pc \in {"row", "commit", "report"}) ~> RunCompleted)

(* a run with a failed row in the first batch has handled a row of the     *)
(* second batch and reached its report                                     *)
C2_Witness ==
  /\ pc = "done"
  /\ skipped_rows > 0
  /\ successful_inserts > 0
  /\ total_rows > batch_size
  /\ gdf[1].global_parcel_uid \in failed_parcel_ids
  /\ Len(commit_log) = 2

(* ---------------------------------------------------------------------- *)
(* C3: when conn.commit() of a batch raises, nothing of the batch becomes  *)
(* durable (the durable table is unchanged and the connection sees it      *)
(* again), the error is reported, and the loop goes on with the next batch *)
(* (or with the report after the last batch).                              *)
(* ---------------------------------------------------------------------- *)
C3_CommitFailureRollsBackBatch ==
  [][commit_errors' > commit_errors =>
       /\ committed' = committed
       /\ table' = committed
       /\ commit_errors' = commit_errors + 1
       /\ pc' = (IF batch_start + batch_size < total_rows THEN "row" ELSE "report")
       /\ batch_start' = batch_start + batch_size]_vars

(* the first batch's commit failed, the table was empty before, and the    *)
(* second batch's row is durable all the same                              *)
C3_Witness ==
  /\ run = 1
  /\ commit_log = <<"error", "ok">>
  /\ \E r \in committed : r.owner_name > batch_size
  /\ \A r \in committed : r.owner_name > batch_size

(* ---------------------------------------------------------------------- *)
(* C4: when the spatial UPDATE or INSERT of a row with an encoded geometry *)
(* raises, the row is written without geometry (geometry NULL,             *)
(* has_spatial_data FALSE), counted as a non-spatial success and not       *)
(* counted as skipped.                                                     *)
(* ---------------------------------------------------------------------- *)
SpatialStatementRaises(rec) ==
  /\ rec.global_parcel_uid # NULL
  /\ rec.geometry \in {"server_error", "driver_error"}

C4_SpatialErrorDegradesToNonSpatial ==
  [][(pc = "row" /\ SpatialStatementRaises(CurrentRow) /\ idx' = idx + 1) =>
       /\ skipped_rows' = skipped_rows
       /\ non_spatial_count' = non_spatial_count + 1
       /\ successful_inserts' = successful_inserts + 1
       /\ \E r \in table' :
            /\ r.global_parcel_uid = CurrentRow.global_parcel_uid
            /\ r.owner_name = CurrentRow.owner_name
            /\ r.geometry = NULL
            /\ r.has_spatial_data = FALSE]_vars


SharedPairs ==
  { p \in (1..total_rows) \X (1..total_rows) :
      /\ p[1] < p[2]
      /\ gdf[p[1]].global_parcel_uid = gdf[p[2]].global_parcel_uid }

C6_DuplicateReportedLastWins ==
  (/\ pc = "done" /\ run = 1
   /\ \A i \in 1..total_rows : gdf[i].global_parcel_uid # NULL
   /\ Cardinality(SharedPairs) = 1
   /\ skipped_rows = 0 /\ commit_errors = 0)
    => \A p \in SharedPairs :
         LET last == gdf[p[2]]
             uid == last.global_parcel_uid
         IN /\ report[1].duplicates = {uid}
            /\ Cardinality(RowsOf(committed, uid)) = 1
            /\ \A r \in RowsOf(committed, uid) :
                 /\ r.owner_name = last.owner_name
                 /\ r.county_parcel_id_num = last.county_parcel_id_num

(* ---------------------------------------------------------------------- *)
(* C7: in every state, the durable table and the table seen by the open    *)
(* transaction hold at most one row per global_parcel_uid.                 *)
(* ---------------------------------------------------------------------- *)
C7_OneRowPerUid ==
  \A tbl \in {table, committed} :
    \A r1 \in tbl : \A r2 \in tbl :
      r1.global_parcel_uid = r2.global_parcel_uid => r1 = r2

(* the end of a second run over an input with a repeated identifier, a     *)
(* failed row and a failed commit                                          *)
C7_Witness ==
  /\ pc = "done" /\ run = 2
  /\ duplicate_parcel_ids # {}
  /\ skipped_rows > 0
  /\ commit_errors > 0
  /\ committed # {}

(* ---------------------------------------------------------------------- *)
(* C8: when a row's identifier is found in the table and the row is        *)
(* written, the table's row for it equals, apart from id, the row that     *)
(* handling the same input row against an empty table inserts (every       *)
(* attribute column, county_parcel_id_num included, geometry and flag).    *)
(* ---------------------------------------------------------------------- *)
InsertedAlone(rec) ==
  Content(TryRow([tbl |-> {}, aborted |-> FALSE, nextval |-> 1], rec).tx.tbl)

C8_UpdateEqualsInsert ==
  [][(/\ pc = "row"
      /\ SelectId(table, CurrentRow.global_parcel_uid) # {}
      /\ RowSucceededStep)
       => Content(RowsOf(table', CurrentRow.global_parcel_uid))
            = InsertedAlone(CurrentRow)]_vars

(* ---------------------------------------------------------------------- *)
(* C9: a row without an encodable geometry is written all the same, as a   *)
(* non-spatial row (geometry NULL, has_spatial_data FALSE, counted as a    *)
(* success, not skipped); and every row of the table has                   *)
(* has_spatial_data = TRUE exactly when its geometry is not NULL.          *)
(* ---------------------------------------------------------------------- *)
FlagMatchesGeometry(tbl) ==
  \A r \in tbl : r.has_spatial_data = (r.geometry # NULL)

C10_NeverDeletes ==
  /\ [][UidsOf(committed) \subseteq UidsOf(committed')]_vars
  /\ [](UidsOf(committed) \subseteq UidsOf(table))

(* a durable row has survived a second run with a failed row and a failed  *)
(* commit                                                                  *)
C10_Witness ==
  /\ pc = "done" /\ run = 2
  /\ first_run.table # {}
  /\ skipped_rows > 0
  /\ commit_errors > 0
  /\ UidsOf(first_run.table) \subseteq UidsOf(committed)

(* ---------------------------------------------------------------------- *)
(* The table one uninterrupted run leaves                                  *)
(* ---------------------------------------------------------------------- *)

(* update_parcel_data on `rows` from row i on, every conn.commit()         *)
(* succeeding: the rows go through the try block in input order, an        *)
(* exception rolls the open transaction back, and the transaction is       *)
(* committed after the last row of each batch of batch_size rows.          *)
RECURSIVE RunFrom(_, _, _, _, _)
RunFrom(rows, i, durable, working, nextval) ==
  IF i > Len(rows) THEN durable
  ELSE LET r == TryRow([tbl |-> working, aborted |-> FALSE, nextval |-> nextval], rows[i])
           w == IF r.raised THEN Rollback(durable, r.tx.tbl) ELSE r.tx.tbl
           last_of_batch == (i % batch_size = 0) \/ i = Len(rows)
       IN RunFrom(rows, i + 1, IF last_of_batch THEN w ELSE durable, w, r.tx.nextval)

(* the durable table after one uninterrupted run on the empty table *)
UninterruptedRun(rows) == RunFrom(rows, 1, {}, {}, 1)

(* a step that ends the process of the run *)
TerminateStep == pc' = "killed" /\ pc # "killed"

Range(seq) == { seq[i] : i \in DOMAIN seq }

(* the counties the caller of migrate_to_postgis asked for *)
Requested == IF all_requested THEN AllCounties ELSE counties_to_migrate

(* ---------------------------------------------------------------------- *)
(* C12 as stated: when migrate_to_postgis has ended for a request of known *)
(* counties, every requested county whose file exists (and whose           *)
(* update_parcel_data call did not raise) has been imported, whatever      *)
(* happened to the other counties' files.                                  *)
(* ---------------------------------------------------------------------- *)
C12_MissingFileFailsOnlyThatCounty ==
  (/\ mig_pc \in {"returned", "complete"}
   /\ Requested # <<>>
   /\ Range(Requested) \subseteq KnownKeys)
  => \A c \in Range(Requested) :
       (FileExists(c) /\ c \notin import_raised) => c \in Range(imported)

(* ---------------------------------------------------------------------- *)
(* C12 amended: in import_all_counties a county whose file is missing      *)
(* fails only that county: the loop visits every county of its list, and   *)
(* every visited county whose file exists and whose update_parcel_data     *)
(* call did not raise has been imported.  migrate_to_postgis starts        *)
(* import_all_counties only when verify_data_files found the file of every *)
(* requested county: when it returns early, no county has been imported.   *)
(* ---------------------------------------------------------------------- *)
C12_ImportLoopIsolatesMissingFile ==
  /\ mig_pc \in {"import", "stats", "complete"} =>
       \A i \in 1..(county_idx - 1) :
         (FileExists(counties_data[i]) /\ counties_data[i] \notin import_raised)
           => counties_data[i] \in Range(imported)
  /\ mig_pc \in {"stats", "complete"} => county_idx = Len(counties_data) + 1
  /\ mig_pc = "returned" => imported = <<>>

(* a completed migration in which a county's file was missing at its turn  *)
(* and a later county of the list was imported                             *)
C12_Witness ==
  /\ mig_pc = "complete"
  /\ \E i, j \in DOMAIN counties_data :
       /\ i < j
       /\ counties_data[i] # counties_data[j]
       /\ counties_data[i] \in Range(import_failed)
       /\ counties_data[i] \notin import_raised
       /\ counties_data[i] \notin Range(imported)
       /\ counties_data[j] \in Range(imported)

(* ---------------------------------------------------------------------- *)
(* C13: when a run of update_parcel_data has ended, every identifier of    *)
(* the processed set is in the succeeded set or in the failed set (and it  *)
(* is so after every row already, before the run ends).                    *)
(* ---------------------------------------------------------------------- *)
C13_ProcessedSucceededOrFailed ==
  processed_parcel_ids \subseteq (successful_parcel_ids \cup failed_parcel_ids)

(* a completed run with an identifier that is only in the failed set and   *)
(* another that is only in the succeeded set                               *)
C13_Witness ==
  /\ pc = "done"
  /\ \E u, v \in processed_parcel_ids :
       /\ u \in failed_parcel_ids /\ u \notin successful_parcel_ids
       /\ v \in successful_parcel_ids /\ v \notin failed_parcel_ids

(* a step that handles one input row *)
RowStep == idx' = idx + 1

(* a step that attempts one conn.commit() *)
CommitStep == Len(commit_log') = Len(commit_log) + 1

(* the number of batches of n rows: ceil(n / batch_size) *)
BatchCount(n) == (n + batch_size - 1) \div batch_size

(* the 1-based position of the last row of the k-th batch of n rows *)
LastOfBatch(k, n) == Min(k * batch_size, n)

(* ---------------------------------------------------------------------- *)
(* C14: the n input rows are handled in input order in consecutive batches *)
(* of exactly batch_size rows (the last one may be smaller): the row at    *)
(* position i is handled after exactly (i - 1) div batch_size commit       *)
(* attempts, that is, inside batch number (i - 1) div batch_size + 1 and   *)
(* no other; the k-th commit is attempted when exactly the rows up to the  *)
(* last row of batch k have been handled; and a completed run has          *)
(* attempted ceil(n / batch_size) commits.  (batch_size is 1000 in the     *)
(* source and scaled down here.)                                           *)
(* ---------------------------------------------------------------------- *)
C14_BatchesOfBatchSize ==
  [][ /\ RowStep => (idx - 1) \div batch_size = Len(commit_log)
      /\ CommitStep => idx - 1 = LastOfBatch(Len(commit_log) + 1, total_rows)
      /\ pc' = "done" => /\ Len(commit_log') = BatchCount(total_rows)
                         /\ idx' = total_rows + 1 ]_vars

(* a completed run over a full batch followed by a smaller last batch *)
C14_Witness ==
  /\ pc = "done"
  /\ total_rows > batch_size
  /\ total_rows % batch_size # 0
  /\ Len(commit_log) = 2

(* ---------------------------------------------------------------------- *)
(* Calls of the geometry functions                                         *)
(* ---------------------------------------------------------------------- *)

(* a call of fn has returned or raised *)
Called(fn) == geom_result # <<>> /\ geom_result[1].fn = fn

(* what the call returned (None when it raised) *)
ReturnValue == geom_result[1].out.value

(* a finite coordinate with longitude in [-180,180] and latitude in [-90,90] *)
InRange(c) ==
  /\ Len(c) >= 2
  /\ c[1].kind = "num" /\ c[1].v >= -180 /\ c[1].v <= 180
  /\ c[2].kind = "num" /\ c[2].v >= -90 /\ c[2].v <= 90

RingOk(ring) == Len(ring) >= 4 /\ \A i \in DOMAIN ring : InRange(ring[i])

(* the ring invariant of a Polygon *)
PolygonRingsOk(p) ==
  RingOk(p.exterior) /\ \A k \in DOMAIN p.interiors : RingOk(p.interiors[k])

(* the number of coordinates of a ring that are in range *)
InRangeCount(ring) == Cardinality({ i \in DOMAIN ring : InRange(ring[i]) })

(* ---------------------------------------------------------------------- *)
(* C17: a Polygon or MultiPolygon returned by                              *)
(* _validate_and_clean_coordinates satisfies the ring invariant: every     *)
(* ring of every part has at least 4 points, all finite with longitude in  *)
(* [-180,180] and latitude in [-90,90].  A Polygon whose exterior has      *)
(* fewer than 4 such points gives None, and a MultiPolygon result has no   *)
(* more parts than the input has parts with 4 such exterior points.        *)
(* ---------------------------------------------------------------------- *)
C17_CleanedRingsSatisfyInvariant ==
  Called("_validate_and_clean_coordinates") =>
    /\ (ReturnValue # None /\ ReturnValue.geom_type = "Polygon")
         => PolygonRingsOk(ReturnValue)
    /\ (ReturnValue # None /\ ReturnValue.geom_type = "MultiPolygon")
         => /\ ReturnValue.geoms # <<>>
            /\ \A k \in DOMAIN ReturnValue.geoms : PolygonRingsOk(ReturnValue.geoms[k])
            /\ Len(ReturnValue.geoms) <=
                 Cardinality({ k \in DOMAIN geom_input.geoms :
                                 InRangeCount(geom_input.geoms[k].exterior) >= 4 })
    /\ (geom_input.geom_type = "Polygon" /\ InRangeCount(geom_input.exterior) < 4)
         => ReturnValue = None

(* a Polygon that lost a coordinate of its exterior and one of its holes   *)
(* and was returned                                                        *)
C17_Witness ==
  /\ Called("_validate_and_clean_coordinates")
  /\ geom_input.geom_type = "Polygon"
  /\ ReturnValue # None
  /\ Len(ReturnValue.exterior) < Len(geom_input.exterior)
  /\ Len(ReturnValue.interiors) < Len(geom_input.interiors)

(* ---------------------------------------------------------------------- *)
(* C15: safe_geometry_to_wkb never raises: for every geometry (None and    *)
(* empty ones included) and every parcel_id, a call ends by returning a    *)
(* value, None when a step failed.                                         *)
(* ---------------------------------------------------------------------- *)
C15_SafeGeometryToWkbNeverRaises ==
  Called("safe_geometry_to_wkb") => ~geom_result[1].out.raised

(* ---------------------------------------------------------------------- *)
(* C16: every encoding returned by safe_geometry_to_wkb is of a 2-D        *)
(* geometry, whatever the type of the input that carried a Z ordinate.     *)
(* ---------------------------------------------------------------------- *)
C16_ReturnedEncodingIs2D ==
  (/\ Called("safe_geometry_to_wkb")
   /\ ~geom_result[1].out.raised
   /\ ReturnValue # None)
    => ReturnValue.dimension = 2

(* ---------------------------------------------------------------------- *)
(* C20                                                                     *)
(* ---------------------------------------------------------------------- *)

(* make_valid left the input of the call invalid *)
StillInvalid ==
  /\ ~geom_input.is_valid
  /\ geom_input.shapely.make_valid = "invalid"
  /\ ~Raises(geom_input, "make_valid")

(* make_valid turned the invalid input of the call into a valid geometry *)
MadeValid ==
  /\ ~geom_input.is_valid
  /\ geom_input.shapely.make_valid # "invalid"
  /\ ~Raises(geom_input, "make_valid")

(* C20 as stated: for every invalid geometry whose area is zero,           *)
(* _repair_geometry returns None.                                          *)
C20_ZeroAreaInvalidGivesNone ==
  (/\ Called("_repair_geometry")
   /\ ~geom_input.is_valid
   /\ geom_input.area = 0)
    => ReturnValue = None

(* C20 amended: an invalid Polygon that make_valid leaves invalid and      *)
(* whose area is below 1e-10 (zero included) gives None; an invalid        *)
(* geometry that make_valid turns into a valid one gives that geometry,    *)
(* whatever its area.                                                      *)
C20_StillInvalidDegeneratePolygonGivesNone ==
  Called("_repair_geometry") =>
    /\ (StillInvalid /\ geom_input.geom_type = "Polygon" /\ geom_input.area < AreaEps)
         => ReturnValue = None
    /\ MadeValid => (ReturnValue # None /\ ReturnValue.is_valid)

(* a Polygon with an area below the threshold that make_valid left invalid *)
(* and that simplify().buffer(0) would have made valid was rejected        *)
C20_Witness ==
  /\ Called("_repair_geometry")
  /\ StillInvalid
  /\ geom_input.geom_type = "Polygon"
  /\ geom_input.area < AreaEps
  /\ geom_input.shapely.buffer = "valid"
  /\ ~Raises(geom_input, "buffer")
  /\ ReturnValue = None

(* ---------------------------------------------------------------------- *)
(* Calls of the attribute functions                                        *)
(* ---------------------------------------------------------------------- *)

AttrCalled(fn) == attr_result # <<>> /\ attr_result[1].fn = fn

AttrValue == attr_result[1].out.value

(* a float NaN, or a string equal to 'nan' or 'null' in any letter case *)
NaNLike(value) ==
  \/ value.type = "float" /\ value.x = NaN
  \/ value.type = "str" /\ \E t \in {nan_str, null_str} :
       /\ Len(value.s) = Len(t)
       /\ \A i \in DOMAIN t : value.s[i] = t[i] \/ (t[i] = "n" /\ value.s[i] = "N")

(* ---------------------------------------------------------------------- *)
(* C18: every NaN-like attribute value of a record is replaced by an       *)
(* absent value before the record is written: no value bound to a column   *)
(* of the row update_parcel_data writes is NaN-like.                       *)
(* ---------------------------------------------------------------------- *)
C18_NoNaNLikeValueWritten ==
  AttrCalled("update_parcel_data") =>
    \A k \in Columns : ~NaNLike(AttrValue.parameters[k])

(* the text of a string between its leading and trailing blanks is a       *)
(* decimal number or 'nan' in any letter case                              *)
Numeral(s) ==
  \E i \in DOMAIN s : \E j \in i..Len(s) :
    /\ \A k \in DOMAIN s : (k < i \/ k > j) => s[k] = " "
    /\ \/ \A k \in i..j : s[k] = "1"
       \/ (j - i = 2 /\ s[i] \in {"n", "N"} /\ s[i + 1] = "a" /\ s[j] \in {"n", "N"})

(* a value that can be read as a number *)
Parseable(val) ==
  \/ val.type \in {"float", "int"}
  \/ val.type = "str" /\ Numeral(val.s)

(* null, the empty string, the literal 'null' or 'nan' *)
Sentinel(val) ==
  \/ val.type = "NoneType"
  \/ val.type = "str" /\ val.s \in {<<>>, <<"n", "u", "l", "l">>, <<"n", "a", "n">>}

(* the numeric value of a parseable value: 1 repeated n times is           *)
(* (10^n - 1) / 9                                                          *)
NumericValue(val) ==
  IF val.type = "float" THEN val.x
  ELSE IF val.type = "int" THEN Num(val.n)
  ELSE LET ones == Cardinality({ i \in DOMAIN val.s : val.s[i] = "1" })
       IN IF ones = 0 THEN NaN ELSE Num(((10 ^ ones) - 1) \div 9)

(* ---------------------------------------------------------------------- *)
(* C19: _parse_numeric never raises; null, the empty string, the literal   *)
(* 'null' or 'nan' and every value that cannot be read as a number give    *)
(* None; every other value gives its numeric value.                        *)
(* ---------------------------------------------------------------------- *)
C19_ParseNumericTotal ==
  AttrCalled("_parse_numeric") =>
    /\ ~attr_result[1].out.raised
    /\ (Sentinel(attr_input) \/ ~Parseable(attr_input)) => AttrValue = PyNone
    /\ (~Sentinel(attr_input) /\ Parseable(attr_input))
         => AttrValue = Float(NumericValue(attr_input))

(* 'nan' gave None *)
C19_Witness ==
  /\ AttrCalled("_parse_numeric")
  /\ attr_input = Str(<<"n", "a", "n">>)
  /\ AttrValue = PyNone

(* ---------------------------------------------------------------------- *)
(* Calls of is_valid_coord and clean_coords                                *)
(* ---------------------------------------------------------------------- *)

(* the positions of a list whose coordinate is in range, in order *)
RECURSIVE InRangePositions(_)
InRangePositions(ring) ==
  IF ring = <<>> THEN <<>>
  ELSE LET before == InRangePositions(SubSeq(ring, 1, Len(ring) - 1))
       IN IF InRange(ring[Len(ring)]) THEN Append(before, Len(ring)) ELSE before

(* the list given to the first call of clean_coords, and what it returned *)
CleanedFrom == geom_input.coords
Cleaned == geom_result[1].out.value.cleaned

(* C21 as stated: the cleaned ring is exactly the subsequence of the input *)
(* coordinates that are valid, in their original order, and dropped plus   *)
(* the length of the cleaned ring is the length of the input.              *)
C21_CleanedIsSubsequence ==
  Called("clean_coords") =>
    LET pos == InRangePositions(CleanedFrom)
    IN /\ Cleaned = [j \in 1..Len(pos) |-> CleanedFrom[pos[j]]]
       /\ geom_result[1].out.value.dropped + Len(Cleaned) = Len(CleanedFrom)

(* ---------------------------------------------------------------------- *)
(* C21 amended: the cleaned ring is, in their original order, the first    *)
(* two ordinates of each input coordinate that is valid (the coordinate    *)
(* itself when it has two ordinates), and dropped plus the length of the   *)
(* cleaned ring is the length of the input.                                *)
(* ---------------------------------------------------------------------- *)
C21_CleanedIsSubsequenceIn2D ==
  Called("clean_coords") =>
    LET pos == InRangePositions(CleanedFrom)
    IN /\ Cleaned = [j \in 1..Len(pos) |->
                       <<CleanedFrom[pos[j]][1], CleanedFrom[pos[j]][2]>>]
       /\ geom_result[1].out.value.dropped + Len(Cleaned) = Len(CleanedFrom)

(* a list that lost a coordinate between two kept ones, one of them with Z *)
C21_Witness ==
  /\ Called("clean_coords")
  /\ Len(CleanedFrom) >= 3
  /\ InRange(CleanedFrom[1]) /\ Len(CleanedFrom[1]) = 3
  /\ ~InRange(CleanedFrom[2])
  /\ InRange(CleanedFrom[3])
  /\ geom_result[1].out.value.dropped >= 1
  /\ Len(Cleaned) >= 2

(* a closed ring of at least 4 coordinates, all in range *)
CleanRing(ring) ==
  /\ Len(ring) >= 4
  /\ ring[1] = ring[Len(ring)]
  /\ \A i \in DOMAIN ring : InRange(ring[i])

(* C22 as stated: a closed ring of at least 4 valid coordinates is         *)
(* returned unchanged with nothing dropped, and cleaning what clean_coords *)
(* returned returns it again.                                              *)
C22_CleanIsIdempotent ==
  /\ (Called("clean_coords") /\ CleanRing(CleanedFrom))
       => (Cleaned = CleanedFrom /\ geom_result[1].out.value.dropped = 0)
  /\ Len(geom_result) = 2 => geom_result[2].out.value.cleaned = Cleaned

(* ---------------------------------------------------------------------- *)
(* C22 amended: a closed ring of at least 4 valid coordinates is returned  *)
(* with nothing dropped, unchanged when its coordinates have two           *)
(* ordinates and with every coordinate cut to its first two ordinates      *)
(* otherwise; and cleaning what clean_coords returned returns it again     *)
(* with nothing dropped.                                                   *)
(* ---------------------------------------------------------------------- *)
C22_CleanIsIdempotentIn2D ==
  /\ (Called("clean_coords") /\ CleanRing(CleanedFrom))
       => /\ Len(Cleaned) = Len(CleanedFrom)
          /\ geom_result[1].out.value.dropped = 0
          /\ \A i \in DOMAIN CleanedFrom : Cleaned[i] = SubSeq(CleanedFrom[i], 1, 2)
  /\ Len(geom_result) = 2
       => /\ geom_result[2].out.value.cleaned = Cleaned
          /\ geom_result[2].out.value.dropped = 0

(* a list that lost a coordinate was cleaned a second time *)
C22_Witness ==
  /\ Len(geom_result) = 2
  /\ CleanRing(Cleaned)
  /\ Len(Cleaned) < Len(CleanedFrom)

(* ---------------------------------------------------------------------- *)
(* C24: is_valid_coord returns False exactly for a coordinate with fewer   *)
(* than 2 ordinates, a NaN or infinite longitude or latitude, a longitude  *)
(* outside [-180,180] or a latitude outside [-90,90]; the bounds are       *)
(* valid and a third ordinate does not matter.                             *)
(* ---------------------------------------------------------------------- *)
C24_IsValidCoordExact ==
  Called("is_valid_coord") =>
    LET c == geom_input.coords[1]
        Finite(x) == x.kind = "num"
        rejected ==
          \/ Len(c) < 2
          \/ ~Finite(c[1]) \/ ~Finite(c[2])
          \/ c[1].v < -180 \/ c[1].v > 180
          \/ c[2].v < -90 \/ c[2].v > 90
    IN ReturnValue = ~rejected

(* the corner (180, -90) with a NaN third ordinate was accepted *)
C24_Witness ==
  /\ Called("is_valid_coord")
  /\ geom_input.coords[1] = <<Num(180), Num(-90), NaN>>
  /\ ReturnValue = TRUE

(* ---------------------------------------------------------------------- *)
(* Rejected rings and parts in _validate_and_clean_coordinates             *)
(* ---------------------------------------------------------------------- *)

(* what is left of a ring: its coordinates in range, in order and in 2-D *)
CleanedRing(ring) ==
  LET pos == InRangePositions(ring)
  IN [j \in 1..Len(pos) |-> <<ring[pos[j]][1], ring[pos[j]][2]>>]

(* the interior rings of a Polygon that are left with 4 points or more, in order *)
RECURSIVE KeptHoles(_)
KeptHoles(rings) ==
  IF rings = <<>> THEN <<>>
  ELSE LET before == KeptHoles(SubSeq(rings, 1, Len(rings) - 1))
           last == CleanedRing(rings[Len(rings)])
       IN IF Len(last) >= 4 THEN Append(before, last) ELSE before

(* the cleaned parts of a MultiPolygon that are kept (lines 109-112), in order *)
RECURSIVE KeptParts(_)
KeptParts(parts) ==
  IF parts = <<>> THEN <<>>
  ELSE LET before == KeptParts(SubSeq(parts, 1, Len(parts) - 1))
           last == _validate_and_clean_coordinates(parts[Len(parts)])
       IN IF last # None /\ last.is_valid THEN Append(before, last) ELSE before

(* the input is a Polygon one of whose interior rings is left with fewer   *)
(* than 4 points while its exterior keeps 4 or more                        *)
HoleRejected ==
  /\ geom_input.geom_type = "Polygon"
  /\ InRangeCount(geom_input.exterior) >= 4
  /\ \E k \in DOMAIN geom_input.interiors : InRangeCount(geom_input.interiors[k]) < 4

(* the rule for a MultiPolygon: the kept parts, None when there is none *)
PartsRule ==
  geom_input.geom_type = "MultiPolygon" =>
    LET kept == KeptParts(geom_input.geoms)
    IN IF kept = <<>> THEN ReturnValue = None
       ELSE ReturnValue.geom_type = "MultiPolygon" /\ ReturnValue.geoms = kept

(* C23 as stated: an exterior ring left with fewer than 4 points gives     *)
(* None; an interior ring left with fewer than 4 points only drops that    *)
(* hole, the Polygon being returned with its exterior and the other        *)
(* interior rings; a MultiPolygon keeps the parts that are not rejected    *)
(* and is None only when no part remains.                                  *)
C23_RejectionPerRingAndPart ==
  Called("_validate_and_clean_coordinates") =>
    /\ (geom_input.geom_type = "Polygon" /\ InRangeCount(geom_input.exterior) < 4)
         => ReturnValue = None
    /\ HoleRejected =>
         /\ ReturnValue # None
         /\ ReturnValue.exterior = CleanedRing(geom_input.exterior)
         /\ ReturnValue.interiors = KeptHoles(geom_input.interiors)
    /\ PartsRule

(* ---------------------------------------------------------------------- *)
(* C23 amended: an exterior ring left with fewer than 4 points gives       *)
(* None; an interior ring left with fewer than 4 points only drops that    *)
(* hole: the Polygon is rebuilt from the cleaned exterior and the other    *)
(* cleaned interior rings and is returned when it is valid, which it is    *)
(* whenever the input was valid and lost no coordinate of a kept ring,     *)
(* and None is returned when it is not; a MultiPolygon keeps the parts     *)
(* that are not rejected and is None only when no part remains.            *)
(* ---------------------------------------------------------------------- *)
C23_RejectionPerRingAndPartIfValid ==
  Called("_validate_and_clean_coordinates") =>
    /\ (geom_input.geom_type = "Polygon" /\ InRangeCount(geom_input.exterior) < 4)
         => ReturnValue = None
    /\ HoleRejected =>
         /\ ReturnValue # None =>
              /\ ReturnValue.is_valid
              /\ ReturnValue.exterior = CleanedRing(geom_input.exterior)
              /\ ReturnValue.interiors = KeptHoles(geom_input.interiors)
         /\ ( /\ geom_input.is_valid
              /\ InRangeCount(geom_input.exterior) = Len(geom_input.exterior)
              /\ \A k \in DOMAIN geom_input.interiors :
                   InRangeCount(geom_input.interiors[k])
                     \in {Len(geom_input.interiors[k])} \cup 0..3 )
              => ReturnValue # None
    /\ PartsRule

(* a Polygon came back without the first of its two holes and with the     *)
(* second                                                                  *)
C23_Witness ==
  /\ Called("_validate_and_clean_coordinates")
  /\ HoleRejected
  /\ Len(geom_input.interiors) = 2
  /\ InRangeCount(geom_input.interiors[1]) < 4
  /\ ReturnValue # None
  /\ Len(ReturnValue.interiors) = 1
  /\ ReturnValue.interiors[1] = CleanedRing(geom_input.interiors[2])

(* ---------------------------------------------------------------------- *)
(* Two calls of safe_geometry_to_wkb                                       *)
(* ---------------------------------------------------------------------- *)

(* both calls of safe_geometry_to_wkb have ended *)
CalledTwice == Len(geom_result) = 2 /\ geom_pc = "done"

(* the two calls ended the same way: both raised, or both returned the     *)
(* same value                                                              *)
SameResult ==
  /\ geom_result[2].out.raised = geom_result[1].out.raised
  /\ geom_result[2].out.value = geom_result[1].out.value

(* ---------------------------------------------------------------------- *)
(* C25: for the same geometry, two calls of safe_geometry_to_wkb return    *)
(* the same result whatever the parcel_id passed and whatever call was     *)
(* made before, and the calls leave all state outside them (the table,     *)
(* the session, the counters and sets of the update) as it was.            *)
(* ---------------------------------------------------------------------- *)
C25_DeterministicAndSideEffectFree ==
  /\ CalledTwice => SameResult
  /\ Called("safe_geometry_to_wkb") => (NoUpsert /\ NoMigration /\ NoAttrCall)

(* the two calls of C25 differ only for None with the debug parcel_id:     *)
(* for every other geometry the two results are the same                   *)
C25_SameResultForGeometries ==
  /\ (CalledTwice /\ geom_input # None) => SameResult
  /\ Called("safe_geometry_to_wkb") => (NoUpsert /\ NoMigration /\ NoAttrCall)

(* two calls with different parcel_ids returned the same binary *)
C25_SameBinaryReached ==
  /\ CalledTwice
  /\ geom_result[1].parcel_id # geom_result[2].parcel_id
  /\ SameResult
  /\ ReturnValue # None

(* ---------------------------------------------------------------------- *)
(* The order of the steps of safe_geometry_to_wkb                          *)
(* ---------------------------------------------------------------------- *)

(* the steps of a call that goes to its end, with or without the first and *)
(* the second repair                                                       *)
StepOrder(repair1, repair2) ==
  <<"null_check", "empty_check", "validity_check">>
    \o (IF repair1 THEN <<"repair">> ELSE <<>>)
    \o <<"clean", "convert", "validity_check">>
    \o (IF repair2 THEN <<"repair">> ELSE <<>>)
    \o <<"wkb_dumps">>

IsPrefix(s, t) == Len(s) <= Len(t) /\ SubSeq(t, 1, Len(s)) = s

(* the number of repair attempts among the steps *)
Repairs(steps) == Cardinality({ i \in DOMAIN steps : steps[i] = "repair" })

(* the steps of the call other than the printing of diagnostics *)
StepsTaken == SelectSeq(geom_steps, LAMBDA step : step # "diagnostics")

(* ---------------------------------------------------------------------- *)
(* C29: at every point of a call of safe_geometry_to_wkb the steps taken   *)
(* so far are a start of the one order null check, empty check, validity   *)
(* check, repair only if the geometry was invalid, cleaning, conversion to *)
(* 2-D, validity check, repair only if the 2-D geometry was invalid,       *)
(* serialization; repair is attempted at most twice; and a binary is       *)
(* returned only after all the steps, for a geometry that is not empty,    *)
(* came out of cleaning and conversion, and was valid at the last check    *)
(* or after the repair that followed it.                                   *)
(* ---------------------------------------------------------------------- *)
C29_FixedOrderOfSteps ==
  (geom_pc \in {"validity", "clean", "convert", "validity_2d", "encode"}
     \/ Called("safe_geometry_to_wkb")) =>
    /\ \E repair1, repair2 \in BOOLEAN : IsPrefix(StepsTaken, StepOrder(repair1, repair2))
    /\ Repairs(geom_steps) <= 2
    /\ Len(geom_steps) >= 4 => (geom_steps[4] = "repair" <=> ~geom_input.is_valid)
    /\ (Called("safe_geometry_to_wkb") /\ ReturnValue # None) =>
         /\ \E repair1, repair2 \in BOOLEAN : geom_steps = StepOrder(repair1, repair2)
         /\ geom_result[1].out.steps = geom_steps
         /\ ReturnValue.format = "wkb"
         /\ ReturnValue.body = mapping(geom_local)
         /\ ~is_empty(geom_input) /\ ~is_empty(geom_local)
         /\ geom_local.is_valid

(* a binary was returned after two repairs *)
C29_Witness ==
  /\ Called("safe_geometry_to_wkb")
  /\ ReturnValue # None
  /\ Repairs(geom_result[1].out.steps) = 2
  /\ geom_result[1].out.steps[Len(geom_result[1].out.steps)] = "wkb_dumps"

(* ---------------------------------------------------------------------- *)
(* The MultiPolygon branch of _repair_geometry                             *)
(* ---------------------------------------------------------------------- *)

(* the parts kept when each part is repaired on its own: those that are    *)
(* valid after their repair and have an area above the threshold, in order *)
RECURSIVE RepairedParts(_)
RepairedParts(parts) ==
  IF parts = <<>> THEN <<>>
  ELSE LET before == RepairedParts(SubSeq(parts, 1, Len(parts) - 1))
           last == _repair_geometry(parts[Len(parts)])
       IN IF last # None /\ last.is_valid /\ last.area > AreaEps
            THEN Append(before, last) ELSE before

(* C30 as stated: for a MultiPolygon that make_valid leaves invalid,       *)
(* _repair_geometry repairs each part on its own, keeps the parts that are *)
(* valid after their repair with an area above the threshold, and returns  *)
(* the MultiPolygon of the kept parts, or None when no part is kept; an    *)
(* invalid part that can be repaired on its own is kept.                   *)
C30_PartsRepairedIndependently ==
  (/\ Called("_repair_geometry")
   /\ geom_input.geom_type = "MultiPolygon"
   /\ StillInvalid) =>
    LET kept == RepairedParts(geom_input.geoms)
    IN IF kept = <<>> THEN ReturnValue = None
       ELSE /\ ReturnValue # None
            /\ ReturnValue.geom_type = "MultiPolygon"
            /\ ReturnValue.geoms = kept

(* ---------------------------------------------------------------------- *)
(* C30 amended: for a MultiPolygon that make_valid leaves invalid,         *)
(* _repair_geometry repairs no part: it keeps the parts that are valid as  *)
(* they are and have an area above the threshold, and returns the          *)
(* MultiPolygon of the kept parts, or None when no part is kept; an        *)
(* invalid part is dropped even when it could be repaired on its own.      *)
(* ---------------------------------------------------------------------- *)
C30_OnlyValidPartsKept ==
  (/\ Called("_repair_geometry")
   /\ geom_input.geom_type = "MultiPolygon"
   /\ StillInvalid) =>
    LET Keep(part) == part.is_valid /\ part.area > AreaEps
        kept == SelectSeq(geom_input.geoms, Keep)
    IN IF kept = <<>> THEN ReturnValue = None
       ELSE ReturnValue.geom_type = "MultiPolygon" /\ ReturnValue.geoms = kept

(* an invalid part that its own repair makes valid was dropped next to a   *)
(* valid part that was kept                                                *)
C30_RepairablePartDropped ==
  /\ Called("_repair_geometry")
  /\ geom_input.geom_type = "MultiPolygon"
  /\ StillInvalid
  /\ Len(geom_input.geoms) = 2
  /\ ~geom_input.geoms[1].is_valid
  /\ Len(RepairedParts(geom_input.geoms)) = 2
  /\ ReturnValue # None
  /\ Len(ReturnValue.geoms) = 1

(* ---------------------------------------------------------------------- *)
(* The commands of community_view_manager                                  *)
(* ---------------------------------------------------------------------- *)

(* the run of the named command has ended *)
Exited(command) == mgr_pc = "exited" /\ mgr_command = command

(* the positions of the record with an event of the given kind *)
EventsOf(kind) == { i \in DOMAIN mgr_log : mgr_log[i].event = kind }

(* ---------------------------------------------------------------------- *)
(* C26: the health command runs the health checks once and ends with exit *)
(* code 0 when every service is healthy, and with exit code 1 when the     *)
(* search API, which is always checked, is not.                            *)
(* ---------------------------------------------------------------------- *)
C26_HealthCommandExitCode ==
  Exited("health") =>
    /\ Cardinality(EventsOf("status")) = 1
    /\ (mgr_world.search_api /\ mgr_world.tegola /\ mgr_world.database) => mgr_exit = 0
    /\ ~mgr_world.search_api => mgr_exit = 1

(* ---------------------------------------------------------------------- *)
(* C27: when a notification address is configured, every data update       *)
(* cycle that has completed, in the update command or in the daemon, is    *)
(* followed by an email sent to that address with the results of the       *)
(* cycle.                                                                  *)
(* ---------------------------------------------------------------------- *)
C27_CycleFollowedByEmail ==
  mgr_config # <<>> /\ mgr_config.notification_email # "" =>
    \A i \in EventsOf("cycle") :
      \E j \in EventsOf("email_sent") :
        /\ j > i
        /\ mgr_log[j].data.to = mgr_config.notification_email
        /\ mgr_log[j].data.results = mgr_log[i].data

(* ---------------------------------------------------------------------- *)
(* C28: the status command ends with exit code 0 whenever the search API   *)
(* is healthy and the database is healthy or not checked, whether Tegola   *)
(* answers or not.                                                         *)
(* ---------------------------------------------------------------------- *)
C28_TegolaOptionalForStatus ==
  Exited("status") =>
    ((mgr_world.search_api /\ (mgr_config.database_check => mgr_world.database))
       => mgr_exit = 0)

(* what the status command does, lines 720-722: exit code 0 exactly when   *)
(* every entry of the status, Tegola's included, is True                   *)
StatusExitCountsTegola ==
  Exited("status") =>
    (mgr_exit = 0 <=>
       (mgr_world.search_api /\ mgr_world.tegola
          /\ (mgr_config.database_check => mgr_world.database)))

(* ---------------------------------------------------------------------- *)
(* The tracking sets and the counters of update_parcel_data                *)
(* ---------------------------------------------------------------------- *)

(* ---------------------------------------------------------------------- *)
(* C31: within a run, no step (a row that succeeds, a row whose error      *)
(* rolls the transaction back, a commit, a failed commit, the report)      *)
(* removes an identifier from the processed, succeeded, failed or          *)
(* duplicate set, or removes or decreases a per-identifier count.          *)
(* ---------------------------------------------------------------------- *)
C31_TrackingSetsAppendOnly ==
  [][run' = run =>
       /\ processed_parcel_ids \subseteq processed_parcel_ids'
       /\ successful_parcel_ids \subseteq successful_parcel_ids'
       /\ failed_parcel_ids \subseteq failed_parcel_ids'
       /\ duplicate_parcel_ids \subseteq duplicate_parcel_ids'
       /\ \A u \in DOMAIN parcel_id_count :
            u \in DOMAIN parcel_id_count' /\ parcel_id_count'[u] >= parcel_id_count[u]]_vars

(* two identifiers failed, one was seen twice, one row succeeded and a     *)
(* commit failed                                                           *)
C31_Witness ==
  /\ Cardinality(failed_parcel_ids) = 2
  /\ duplicate_parcel_ids # {}
  /\ successful_parcel_ids # {}
  /\ skipped_rows >= 1
  /\ commit_errors >= 1

(* an identifier that more than one row of the input carries *)
InputHasDuplicate ==
  \E i, j \in DOMAIN gdf :
    i # j /\ gdf[i].global_parcel_uid # NULL
          /\ gdf[i].global_parcel_uid = gdf[j].global_parcel_uid

(* ---------------------------------------------------------------------- *)
(* C32: the report says "No discrepancy" exactly when the input has no     *)
(* duplicate identifier and no record of the run failed: no discrepancy    *)
(* implies neither, and a duplicate or a failed record implies that a      *)
(* discrepancy is reported.                                                *)
(* ---------------------------------------------------------------------- *)
C32_NoDiscrepancyMeansCleanRun ==
  report # <<>> =>
    (~report[1].discrepancy <=> (~InputHasDuplicate /\ skipped_rows = 0))

(* what the comparison of line 792 tells: the number of rows that were not *)
(* skipped is the number of distinct identifiers seen                      *)
DiscrepancyIsCountComparison ==
  report # <<>> =>
    (~report[1].discrepancy <=>
       Len(gdf) - skipped_rows
         = Cardinality({ gdf[i].global_parcel_uid : i \in DOMAIN gdf } \ {NULL}))

(* "No discrepancy" was reported for an input with a duplicate identifier  *)
(* one of whose records failed                                             *)
C32_NoDiscrepancyWithDuplicate ==
  /\ report # <<>> /\ ~report[1].discrepancy
  /\ InputHasDuplicate
  /\ skipped_rows >= 1

(* ---------------------------------------------------------------------- *)
(* C35: after each record, successful_inserts + skipped_rows is the number *)
(* of records processed so far and successful_inserts is spatial_count +   *)
(* non_spatial_count; when the run has ended, successful_inserts +         *)
(* skipped_rows is the number of input features.                           *)
(* ---------------------------------------------------------------------- *)
C35_CounterInvariant ==
  pc \in {"row", "commit", "report", "done"} =>
    /\ successful_inserts + skipped_rows = idx - 1
    /\ successful_inserts = spatial_count + non_spatial_count
    /\ pc \in {"report", "done"} => successful_inserts + skipped_rows = Len(gdf)

(* a run ended with rows of each kind: spatial, non-spatial and skipped *)
C35_Witness ==
  /\ pc = "done"
  /\ spatial_count >= 1 /\ non_spatial_count >= 1 /\ skipped_rows >= 1
  /\ successful_inserts + skipped_rows = Len(gdf)

(* the input rows, by position, whose write is in the durable table: the   *)
(* table has a row for the identifier carrying the payload of that row     *)
PersistedRecords ==
  { i \in DOMAIN gdf :
      \E r \in committed : /\ MatchUid(r.global_parcel_uid, gdf[i].global_parcel_uid)
                           /\ r.owner_name = gdf[i].owner_name }

(* ---------------------------------------------------------------------- *)
(* C36: when a run has ended, every identifier of the succeeded set has a  *)
(* row in the durable table, and successful_inserts is at most the number  *)
(* of input records whose write is durable.                                *)
(* ---------------------------------------------------------------------- *)
C36_SucceededMeansCommitted ==
  (pc = "done" /\ run = 1) =>
    /\ \A uid \in successful_parcel_ids :
         \E r \in committed : MatchUid(r.global_parcel_uid, uid)
    /\ successful_inserts <= Cardinality(PersistedRecords)

(* C36 holds of the runs without a skipped record and without a failed     *)
(* commit, when no identifier occurs twice                                 *)
SucceededCommittedInCleanRuns ==
  (pc = "done" /\ run = 1 /\ skipped_rows = 0 /\ commit_errors = 0 /\ ~InputHasDuplicate) =>
    /\ \A uid \in successful_parcel_ids :
         \E r \in committed : MatchUid(r.global_parcel_uid, uid)
    /\ successful_inserts <= Cardinality(PersistedRecords)

(* ---------------------------------------------------------------------- *)
(* C37: for an input without duplicate identifiers, when the run has       *)
(* ended the succeeded and the failed set are disjoint: the identifier of  *)
(* a record that was written (also through the non-spatial fallback) is    *)
(* in the succeeded set only, the identifier of a skipped record in the    *)
(* failed set only.                                                        *)
(* ---------------------------------------------------------------------- *)
C37_SucceededFailedDisjoint ==
  (pc = "done" /\ ~InputHasDuplicate) =>
    successful_parcel_ids \cap failed_parcel_ids = {}

(* without the fallback of the insert path (a spatial INSERT that raises   *)
(* before reaching the server), the two sets are disjoint                  *)
DisjointWithoutInsertFallback ==
  (pc = "done" /\ ~InputHasDuplicate
     /\ \A i \in DOMAIN gdf : gdf[i].geometry # "driver_error") =>
    successful_parcel_ids \cap failed_parcel_ids = {}

(* ---------------------------------------------------------------------- *)
(* C38: when the first record of a batch is about to be processed, the     *)
(* connection holds no uncommitted statement (the table it sees is the     *)
(* durable one: the batch before was committed or rolled back as a whole); *)
(* and what a commit makes durable was written by records of its own       *)
(* batch only.                                                             *)
(* ---------------------------------------------------------------------- *)
C38_OneTransactionPerBatch ==
  /\ (pc = "row" /\ idx = batch_start + 1) => table = committed
  /\ pc \in {"row", "commit"} =>
       \A r \in table \ committed : r.owner_name \in (batch_start + 1)..batch_end

(* the second batch starts after a first batch whose commit failed and     *)
(* whose rows are gone                                                     *)
C38_Witness ==
  /\ pc = "row" /\ idx = batch_start + 1 /\ batch_start > 0
  /\ commit_errors = 1
  /\ successful_inserts >= 1
  /\ table = committed /\ committed = {}

(* the start command ran a start script that exited with another code than *)
(* 0 and "address already in use" in its output                            *)
StartedIntoPortConflict ==
  /\ Exited("start")
  /\ mgr_log = << Event("start_services", "port_conflict") >>

(* ---------------------------------------------------------------------- *)
(* C33: when the start script exits with an error and "address already in  *)
(* use" while the search API and the tile server answer their health       *)
(* requests, start_services returns True: the start command exits with 0.  *)
(* ---------------------------------------------------------------------- *)
C33_PortConflictWithRunningServices ==
  (StartedIntoPortConflict /\ mgr_world.search_api /\ mgr_world.tegola) => mgr_exit = 0

(* what the code does: a port conflict always ends the start command with  *)
(* exit code 1, whatever the services answer                               *)
PortConflictAlwaysFails ==
  StartedIntoPortConflict => mgr_exit = 1

(* the start command failed on a port conflict although every service,     *)
(* the database included, answers                                          *)
PortConflictFailsWithAllHealthy ==
  /\ StartedIntoPortConflict
  /\ mgr_world.search_api /\ mgr_world.tegola /\ mgr_world.database
  /\ mgr_exit = 1

(* a requested county key that get_county_data_files() does not have *)
RequestHasUnknownKey ==
  /\ ~all_requested
  /\ \E i \in DOMAIN counties_to_migrate : counties_to_migrate[i] \notin KnownKeys

(* the statements the migration has executed so far *)
Executed == { db_log[k] : k \in DOMAIN db_log }

ReturnedAtVerification ==
  /\ mig_pc = "returned" /\ ~RequestHasUnknownKey
  /\ counties_data # <<>> /\ db_log = <<>>

(* the features of the input that have no identifier *)
WithoutIdentifier == { i \in DOMAIN gdf : gdf[i].global_parcel_uid = NULL }

(* ---------------------------------------------------------------------- *)
(* C39: a record without global_parcel_uid is never persisted: no row      *)
(* without identifier is in the table, inside the transaction or durable,  *)
(* in the first run or the second; and at the end of a run such a record   *)
(* is marked failed and counted as skipped.                                *)
(* ---------------------------------------------------------------------- *)
C39_NoRowWithoutIdentifier ==
  /\ \A r \in table \cup committed : r.global_parcel_uid # NULL
  /\ (pc = "done" /\ WithoutIdentifier # {}) =>
       /\ NULL \in failed_parcel_ids
       /\ skipped_rows >= Cardinality(WithoutIdentifier)

(* the second run on the altered table has added a second row without      *)
(* identifier                                                              *)
RerunAddsRowWithoutIdentifier ==
  /\ run = 2 /\ pc = "done"
  /\ Cardinality({ r \in first_run.table : r.global_parcel_uid = NULL }) = 1
  /\ Cardinality({ r \in committed : r.global_parcel_uid = NULL }) = 2


====
